---- MODULE Spec2Model ----
(***************************************************************************)
(* A model of the OKX trading client: the order-lifecycle manager          *)
(* (execution/order_manager.py), the REST client's response classification,*)
(* rounding and exhaustive order lookup (exchange/okx_rest.py) and the     *)
(* private WebSocket's login breaker (exchange/okx_ws_private.py).         *)
(*                                                                         *)
(* Each component has its own specification (SpecOM, SpecMargin, SpecReq,  *)
(* SpecFloor, SpecLookup, SpecPWS); the variables of the other components  *)
(* stay at their idle value.                                               *)
(***************************************************************************)
EXTENDS Integers, Sequences, FiniteSets, TLC

VARIABLES
    now,      \* time.time(), in model seconds
    cfg,      \* the configuration the process was started with
    kv,       \* SQLiteStore kv table: the durable ledger entries of OrderManager
    calls,    \* per idempotency key, the exchange calls issued so far
    ordSz,    \* per idempotency key, the size sent with its order (0: none sent)
    lastOp,   \* what the last OrderManager call did (history)
    seq,      \* parity of the number of OrderManager calls (history)
    mg,       \* one _margin_gate evaluation: inputs and result
    rq,       \* one _request evaluation: the HTTP response and the outcome
    fl,       \* one _floor_to_step evaluation: inputs and result
    lk,       \* one get_order_anywhere evaluation: exchange data and outcome
    ws,       \* OKXPrivateWS: the object's fields and its thread's position
    sg,       \* signed requests built by _request: inputs, URL and pre-hash
    cl,       \* OKXRest client operations: spec cache and the HTTP requests sent
    hk,       \* housekeep invocations running as threads: position and locals
    loop,     \* the control loop of main: position in the tick and step log
    pub       \* OKXPublicWS: the object's fields and its thread's position

vars == <<now, cfg, kv, calls, ordSz, lastOp, seq, mg, rq, fl, lk, ws, sg, cl, hk, loop, pub>>

xVars == <<sg, cl, hk, loop, pub>>

(***************************************************************************)
(* Bounds of the model.                                                    *)
(***************************************************************************)
Keys == {"k1", "k2"}          \* idempotency keys of the signals
NoKey == ""                   \* get_kv returns None: no such entry
StartTime == 3                \* the clock when the process starts
MaxTime == 5                  \* the clock stops here
MaxSz == 2                    \* largest order size calc_size_by_risk returns
MaxCalls == 2                 \* a call counter stops counting here

Max(a, b) == IF a >= b THEN a ELSE b
Min(a, b) == IF a <= b THEN a ELSE b

(***************************************************************************)
(* Configuration (cfg["trade"], cfg["account"]). Times are scaled to the   *)
(* model's clock; StartTime exceeds every cooldown, as time.time() does.   *)
(***************************************************************************)
OrderTimeoutSec == 2          \* trade.order_timeout_sec
RejectCooldownSec == 1        \* trade.reject_cooldown_sec
Configs ==
    { [cooldown_sec |-> 0, cancel_on_timeout |-> TRUE, max_positions |-> 1],
      [cooldown_sec |-> 2, cancel_on_timeout |-> FALSE, max_positions |-> 1] }

(***************************************************************************)
(* The ledger.  An absent entry reads as None: FALSE for a flag, NoKey or  *)
(* "" for a string, 0 for a timestamp (get_kv_float(...) or 0.0).          *)
(***************************************************************************)
KV0 ==
    [ done |-> [k \in Keys |-> FALSE],      \* done:<idem> == "1"
      pcl  |-> [k \in Keys |-> ""],         \* pending:<idem>:clOrdId
      pts  |-> [k \in Keys |-> 0],          \* pending:<idem>:ts
      cur  |-> NoKey,                       \* pending_current_idem
      rej  |-> 0,                           \* last_reject_ts
      trd  |-> 0,                           \* last_trade_ts
      tpsl |-> [k \in Keys |-> FALSE] ]     \* tp_sl_set:<idem> == "1"

make_cl_ord_id(idem) == "Q" \o idem

\* a mutant of _cleanup_pending: pending:<idem>:ts is left behind
CleanupPendingKeepsTs(L, idem) ==
    [L EXCEPT !.cur = NoKey, !.pcl[idem] = ""]

\* _cleanup_pending: the three deletes, each best-effort
CleanupPending(L, idem) ==
    [L EXCEPT !.cur = NoKey, !.pcl[idem] = "", !.pts[idem] = 0]

(***************************************************************************)
(* OrderManager._margin_gate.  Amounts are integers; a quotient is kept as *)
(* a fraction <<numerator, denominator>> with a positive denominator, and  *)
(* the buffer ratio is a number of RatioDen-ths.                           *)
(***************************************************************************)
RatioDen == 4                 \* margin_buffer_ratio is ratioNum / RatioDen
MinAvailUsdt == 1             \* trade.min_avail_usdt

RatGt(a, b) == a[1] * b[2] > b[1] * a[2]

\* a mutant of _margin_gate: the comparison is >=, so the boundary is blocked
MarginGateStrict(avail, leverage, ct_val, last_px, sz, ratioNum) ==
    IF avail <= 0 THEN FALSE
    ELSE LET lev == IF leverage <= 0 THEN 1 ELSE leverage
         IN  IF ct_val <= 0
             THEN ~(avail < MinAvailUsdt)
             ELSE LET notional == last_px * ct_val * sz
                      req_margin == <<notional, lev>>
                  IN  ~(RatGt(req_margin, <<avail * ratioNum, RatioDen>>)
                        \/ req_margin[1] * RatioDen = avail * ratioNum * lev)

\* ct_val = 0 stands for a contract value that is unknown (no spec, or 0.0)
MarginGate(avail, leverage, ct_val, last_px, sz, ratioNum) ==
    IF avail <= 0 THEN FALSE
    ELSE LET lev == IF leverage <= 0 THEN 1 ELSE leverage
         IN  IF ct_val <= 0
             THEN ~(avail < MinAvailUsdt)
             ELSE LET notional == last_px * ct_val * sz
                      req_margin == <<notional, lev>>
                  IN  ~RatGt(req_margin, <<avail * ratioNum, RatioDen>>)

(***************************************************************************)
(* OrderManager.on_signal.  The inputs of one call: the signal, the bar's  *)
(* close, the portfolio fields it reads, the result of calc_size_by_risk   *)
(* (-1: it raised) and whether place_market_with_tp_sl raises.             *)
(***************************************************************************)
Positions == {<<0, 0>>, <<1, 0>>, <<0, 1>>}     \* <<pos_long, pos_short>>
AvailUsdt == {0, 4}                             \* portfolio.avail_usdt
OpenActions == {"OPEN_LONG", "OPEN_SHORT"}

Sig(action, idem, px, sz, avail, pos, placeOk) ==
    [action |-> action, idem |-> idem, px |-> px, sz |-> sz, avail |-> avail,
     pos |-> pos, placeOk |-> placeOk]

\* Every value of each input, varied around a signal that passes the gates;
\* the size, the balance and the outcome of the exchange call in all
\* combinations.
SignalInputs ==
    LET ids == Keys \cup {NoKey}
    IN  {Sig("CLOSE_LONG", k, 1, 1, 4, <<0, 0>>, TRUE) : k \in ids}
        \cup {Sig(a, k, 0, 1, 4, <<0, 0>>, TRUE) : a \in OpenActions, k \in ids}
        \cup {Sig(a, k, 1, 1, 4, p, TRUE) :
                a \in OpenActions, k \in ids, p \in Positions}
        \cup {Sig("OPEN_LONG", k, 1, sz, av, <<0, 0>>, ok) :
                k \in Keys, sz \in -1 .. MaxSz, av \in AvailUsdt, ok \in BOOLEAN}

Bump(C, what, idem) == [C EXCEPT ![what][idem] = @ + 1]

Out(L, C, O, branch, ev) ==
    [kv |-> L, calls |-> C, ordSz |-> O, branch |-> branch, ev |-> ev]

\* a mutant of gate 1: a done key is not turned away
GateDoneOff(L, idem) == FALSE

\* gate 1: the key is done
GateDone(L, idem) == L.done[idem]

\* a mutant of gate 2: a pending key is not turned away
GatePendingOff(L, idem) == FALSE

\* gate 2: the key is pending
GatePending(L, idem) == L.pcl[idem] # ""

\* a mutant of gate 3: the reject cooldown is not looked at
GateRejectCooldownOff(L, t) == FALSE

\* gate 3: within the reject cooldown
GateRejectCooldown(L, t) ==
    RejectCooldownSec > 0 /\ (t - L.rej) < RejectCooldownSec

\* gate 4: within the trade cooldown
GateTradeCooldown(L, t, conf) ==
    conf.cooldown_sec > 0 /\ (t - L.trd) < conf.cooldown_sec

\* a mutant of gate 5: the position is not looked at
GatePositionOff(conf, in) == FALSE

\* gate 5: max_positions = 1 forbids holding the opposite side
GatePosition(conf, in) ==
    conf.max_positions <= 1
    /\ \/ in.action = "OPEN_LONG" /\ in.pos[2] > 0
       \/ in.action = "OPEN_SHORT" /\ in.pos[1] > 0

\* a mutant of the submission: the exchange is called before the markers are
\* written
SubmitPlaceFirst(L, C, O, t, in) ==
    LET idem == in.idem
        L1 == [L EXCEPT !.cur = idem,
                        !.pcl[idem] = make_cl_ord_id(idem),
                        !.pts[idem] = t]
        C1 == Bump(C, "place", idem)
        O1 == [O EXCEPT ![idem] = in.sz]
        pre == <<"place", "set_cur", "set_pcl", "set_pts">>
    IN  IF ~in.placeOk
        THEN Out([L EXCEPT !.rej = t, !.done[idem] = TRUE], C1, O1, "place_failed",
                 <<"place", "place_err", "cleanup", "set_rej", "set_done">>)
        ELSE Out([L1 EXCEPT !.trd = t], C1, O1, "submitted",
                 pre \o <<"save_order", "set_trd">>)

\* a mutant of the submission: a failed placement propagates to the caller
SubmitPropagates(L, C, O, t, in) ==
    LET idem == in.idem
        L1 == [L EXCEPT !.cur = idem,
                        !.pcl[idem] = make_cl_ord_id(idem),
                        !.pts[idem] = t]
        C1 == Bump(C, "place", idem)
        O1 == [O EXCEPT ![idem] = in.sz]
        pre == <<"set_cur", "set_pcl", "set_pts", "place">>
    IN  IF ~in.placeOk
        THEN Out(L1, C1, O1, "raised", pre \o <<"place_err">>)
        ELSE Out([L1 EXCEPT !.trd = t], C1, O1, "submitted",
                 pre \o <<"save_order", "set_trd">>)

\* a mutant of the margin rejection: the key is not marked done
MarginRejectedNotDone(L, t, idem) == [L EXCEPT !.rej = t]

\* the margin gate failed: last_reject_ts and done:<idem>
MarginRejected(L, t, idem) == [L EXCEPT !.rej = t, !.done[idem] = TRUE]

\* the submission: pending markers, the exchange call, then either branch
Submit(L, C, O, t, in) ==
    LET idem == in.idem
        L1 == [L EXCEPT !.cur = idem,
                        !.pcl[idem] = make_cl_ord_id(idem),
                        !.pts[idem] = t]
        C1 == Bump(C, "place", idem)
        O1 == [O EXCEPT ![idem] = in.sz]
        pre == <<"set_cur", "set_pcl", "set_pts", "place">>
    IN  IF ~in.placeOk
        THEN Out([CleanupPending(L1, idem) EXCEPT !.rej = t, !.done[idem] = TRUE],
                 C1, O1, "place_failed",
                 pre \o <<"place_err", "cleanup", "set_rej", "set_done">>)
        ELSE Out([L1 EXCEPT !.trd = t], C1, O1, "submitted",
                 pre \o <<"save_order", "set_trd">>)

StartsWithOpen(action) == action \in {"OPEN_LONG", "OPEN_SHORT"}

\* a mutant of the gates' return: the rejection starts the reject cooldown
RejectedStartsCooldown(L, C, O, t, b) == Out([L EXCEPT !.rej = t], C, O, b, <<>>)

\* a gate turned the signal away: return
Rejected(L, C, O, t, b) == Out(L, C, O, b, <<>>)

OnSignal(L, C, O, t, conf, in) ==
    LET idem == in.idem
        skip(b) == Rejected(L, C, O, t, b)
    IN  IF ~StartsWithOpen(in.action) THEN skip("not_open")
        ELSE IF idem = NoKey THEN skip("no_idem")
        ELSE IF GateDone(L, idem) THEN skip("done")
        ELSE IF GatePending(L, idem) THEN skip("pending")
        ELSE IF GateRejectCooldown(L, t) THEN skip("reject_cooldown")
        ELSE IF GateTradeCooldown(L, t, conf) THEN skip("trade_cooldown")
        ELSE IF in.px <= 0 THEN skip("bad_px")
        ELSE IF in.action \notin {"OPEN_LONG", "OPEN_SHORT"} THEN skip("bad_action")
        ELSE IF GatePosition(conf, in) THEN skip("pos_conflict")
        ELSE IF in.sz = -1 THEN skip("size_failed")
        ELSE IF in.sz <= 0 THEN skip("zero_size")
        ELSE IF ~MarginGate(in.avail, 1, 1, in.px, in.sz, RatioDen - 1)
             THEN Out(MarginRejected(L, t, idem), C, O,
                      "margin_reject", <<"set_rej", "set_done">>)
        ELSE Submit(L, C, O, t, in)

(***************************************************************************)
(* OrderManager.housekeep.  The inputs of one call: what                   *)
(* get_order_anywhere answers for the pending order (its state and         *)
(* accFillSz, or an exception) and whether cancel_order and                *)
(* place_tp_sl_algo raise.  The exchange reports a fill size that fits the *)
(* state: none while live, all of the order when filled, a part of it when *)
(* partially filled, less than all when canceled; avgPx is positive        *)
(* exactly when something was filled.                                      *)
(***************************************************************************)
Report(state, acc) ==
    [state |-> state, acc |-> acc, avgPx |-> IF acc > 0 THEN 1 ELSE 0]

Reports(sz) ==
    {Report("raise", 0), Report("live", 0), Report("filled", sz)}
    \cup {Report("partially_filled", f) : f \in 1 .. sz - 1}
    \cup {Report("canceled", f) : f \in 0 .. sz - 1}

\* _after_fill_set_tp_sl; force_sz = -1 stands for None
AfterFillSetTpSl(L, C, idem, info, force_sz, tpslOk) ==
    IF L.tpsl[idem] THEN [kv |-> L, calls |-> C, ev |-> <<>>, sz |-> 0]
    ELSE LET avg_px == info.avgPx
             sz == IF force_sz # -1 THEN force_sz ELSE info.acc
         IN  IF sz <= 0 \/ avg_px <= 0
             THEN [kv |-> L, calls |-> C, ev |-> <<>>, sz |-> 0]
             ELSE IF tpslOk
             THEN [kv |-> [L EXCEPT !.tpsl[idem] = TRUE],
                   calls |-> Bump(C, "tpsl", idem),
                   ev |-> <<"tpsl", "set_tpsl">>, sz |-> sz]
             ELSE [kv |-> L, calls |-> Bump(C, "tpsl", idem),
                   ev |-> <<"tpsl", "tpsl_err">>, sz |-> sz]

HkOut(L, C, branch, ev, sz) ==
    [kv |-> L, calls |-> C, branch |-> branch, ev |-> ev, tpslSz |-> sz]

\* a mutant of the terminal branches: the key is left as it was
MarkDoneAndCleanupOff(L, idem) == L

\* a mutant of the terminal branches: the pending markers are left behind
MarkDoneOnly(L, idem) == [L EXCEPT !.done[idem] = TRUE]

\* done:<idem> = "1", then _cleanup_pending
MarkDoneAndCleanup(L, idem) ==
    CleanupPending([L EXCEPT !.done[idem] = TRUE], idem)

\* a mutant of the terminal branch: TP/SL is attached on canceled as well
HkTerminalAlwaysTpSl(L, C, idem, info, in) ==
    LET a == AfterFillSetTpSl(L, C, idem, info, -1, in.tpslOk)
    IN  HkOut(MarkDoneAndCleanup(a.kv, idem), a.calls, info.state,
              <<"query">> \o a.ev \o <<"set_done", "cleanup">>, a.sz)

\* the branch for state in ("filled", "canceled")
HkTerminal(L, C, idem, info, in) ==
    LET a == IF info.state = "filled"
             THEN AfterFillSetTpSl(L, C, idem, info, -1, in.tpslOk)
             ELSE [kv |-> L, calls |-> C, ev |-> <<>>, sz |-> 0]
    IN  HkOut(MarkDoneAndCleanup(a.kv, idem), a.calls, info.state,
              <<"query">> \o a.ev \o <<"set_done", "cleanup">>, a.sz)

\* a mutant of the partial-fill branch: a failed cancel ends the call
HkPartialCancelRaises(L, C, idem, info, in) ==
    IF ~in.cancelOk
    THEN HkOut(L, C, "partially_filled", <<"query", "cancel", "cancel_err">>, 0)
    ELSE LET a == AfterFillSetTpSl(L, C, idem, info, info.acc, in.tpslOk)
         IN  HkOut(MarkDoneAndCleanup(a.kv, idem), a.calls, "partially_filled",
                   <<"query", "cancel">> \o a.ev \o <<"set_done", "cleanup">>, a.sz)

\* the branch for state == "partially_filled"
HkPartial(L, C, idem, info, in) ==
    LET a == AfterFillSetTpSl(L, C, idem, info, info.acc, in.tpslOk)
        c == IF in.cancelOk THEN <<"cancel">> ELSE <<"cancel", "cancel_err">>
    IN  HkOut(MarkDoneAndCleanup(a.kv, idem), a.calls, "partially_filled",
              <<"query">> \o c \o a.ev \o <<"set_done", "cleanup">>, a.sz)

\* a mutant of the live branch: a failed cancel marks the key done
HkLiveGivesUp(L, C, conf, in) ==
    IF conf.cancel_on_timeout
    THEN IF in.cancelOk THEN HkOut(L, C, "live", <<"query", "cancel">>, 0)
         ELSE HkOut(MarkDoneAndCleanup(L, L.cur), C, "live",
                    <<"query", "cancel", "cancel_err", "set_done", "cleanup">>, 0)
    ELSE HkOut(L, C, "live", <<"query">>, 0)

\* the order is still live: cancel it if so configured
HkLive(L, C, conf, in) ==
    IF conf.cancel_on_timeout
    THEN HkOut(L, C, "live",
               IF in.cancelOk THEN <<"query", "cancel">>
               ELSE <<"query", "cancel", "cancel_err">>, 0)
    ELSE HkOut(L, C, "live", <<"query">>, 0)

Housekeep(L, C, t, conf, in) ==
    LET idem == L.cur
        info == in.rep
    IN  IF idem = NoKey THEN HkOut(L, C, "no_pending", <<>>, 0)
        ELSE IF L.done[idem]
             THEN HkOut(CleanupPending(L, idem), C, "already_done", <<"cleanup">>, 0)
        ELSE IF L.pcl[idem] = ""
             THEN HkOut(CleanupPending(L, idem), C, "no_cl", <<"cleanup">>, 0)
        ELSE IF L.pts[idem] <= 0 THEN HkOut(L, C, "no_ts", <<>>, 0)
        ELSE IF (t - L.pts[idem]) < OrderTimeoutSec
             THEN HkOut(L, C, "before_timeout", <<>>, 0)
        ELSE IF info.state = "raise"
             THEN HkOut(MarkDoneAndCleanup(L, idem), C, "query_failed",
                        <<"query", "query_err", "set_done", "cleanup">>, 0)
        ELSE IF info.state \in {"filled", "canceled"}
             THEN HkTerminal(L, C, idem, info, in)
        ELSE IF info.state = "partially_filled"
             THEN HkPartial(L, C, idem, info, in)
        ELSE HkLive(L, C, conf, in)

(***************************************************************************)
(* The order-lifecycle specification: on_signal and housekeep calls in any *)
(* order, one at a time (the control loop is a single thread), and the     *)
(* clock.                                                                  *)
(***************************************************************************)
Idle == "idle"

XIdle == sg = Idle /\ cl = Idle /\ hk = Idle /\ loop = Idle /\ pub = Idle

NoOp ==
    [op |-> "none", key |-> NoKey, branch |-> "", ev |-> <<>>,
     rep |-> "", acc |-> 0, tpslSz |-> 0]

Calls0 == [place |-> [k \in Keys |-> 0], tpsl |-> [k \in Keys |-> 0]]

OthersIdleOM == mg = Idle /\ rq = Idle /\ fl = Idle /\ lk = Idle /\ ws = Idle /\ XIdle

InitOM ==
    /\ now = StartTime
    /\ cfg \in Configs
    /\ kv = KV0
    /\ calls = Calls0
    /\ ordSz = [k \in Keys |-> 0]
    /\ lastOp = NoOp
    /\ seq = 0
    /\ OthersIdleOM

Tick ==
    /\ now < MaxTime
    /\ now' = now + 1
    /\ UNCHANGED <<cfg, kv, calls, ordSz, lastOp, seq, mg, rq, fl, lk, ws, xVars>>

DoOnSignal ==
    \E in \in SignalInputs :
        LET r == OnSignal(kv, calls, ordSz, now, cfg, in)
        IN  /\ \A k \in Keys : r.calls.place[k] <= MaxCalls
            /\ kv' = r.kv
            /\ calls' = r.calls
            /\ ordSz' = r.ordSz
            /\ lastOp' = [op |-> "on_signal", key |-> in.idem, branch |-> r.branch,
                          ev |-> r.ev, rep |-> "", acc |-> 0, tpslSz |-> 0]
            /\ seq' = 1 - seq
            /\ UNCHANGED <<now, cfg, mg, rq, fl, lk, ws, xVars>>

DoHousekeep ==
    \E rep \in Reports(IF kv.cur = NoKey THEN 0 ELSE ordSz[kv.cur]),
       cancelOk \in BOOLEAN, tpslOk \in BOOLEAN :
        LET in == [rep |-> rep, cancelOk |-> cancelOk, tpslOk |-> tpslOk]
            r == Housekeep(kv, calls, now, cfg, in)
            asked == Len(r.ev) > 0 /\ r.ev[1] = "query"
        IN  /\ \A k \in Keys : r.calls.tpsl[k] <= MaxCalls
            /\ kv' = r.kv
            /\ calls' = r.calls
            /\ lastOp' = [op |-> "housekeep", key |-> kv.cur, branch |-> r.branch,
                          ev |-> r.ev,
                          rep |-> IF asked THEN rep.state ELSE "",
                          acc |-> IF asked THEN rep.acc ELSE 0,
                          tpslSz |-> r.tpslSz]
            /\ seq' = 1 - seq
            /\ UNCHANGED <<now, cfg, ordSz, mg, rq, fl, lk, ws, xVars>>

NextOM == Tick \/ DoOnSignal \/ DoHousekeep

SpecOM == InitOM /\ [][NextOM]_vars

\* a step that is an OrderManager call
OpStep == seq' # seq

(***************************************************************************)
(* Properties of the order lifecycle.                                      *)
(***************************************************************************)
IsExchangeCall(e) == e \in {"place", "query", "cancel", "tpsl"}
ExchangeCalls(op) == SelectSeq(op.ev, IsExchangeCall)

IsCallOrMark(e) == e \in {"query", "cancel", "tpsl", "set_done", "cleanup"}
CallsAndMarks(op) == SelectSeq(op.ev, IsCallOrMark)

IsTpSl(e) == e = "tpsl"

HasEvent(op, e) == \E i \in 1 .. Len(op.ev) : op.ev[i] = e

PendingKeys == {k \in Keys : kv.pcl[k] # ""}

\* C1: the order-placement call is issued at most once per idempotency key,
\* and an on_signal call whose key is already done or pending issues no
\* exchange call and changes no ledger entry.
C1_PlaceAtMostOncePerKey ==
    /\ [](\A k \in Keys : calls.place[k] <= 1)
    /\ [][ (/\ OpStep
            /\ lastOp'.op = "on_signal"
            /\ lastOp'.key # NoKey
            /\ (kv.done[lastOp'.key] \/ kv.pcl[lastOp'.key] # ""))
           => (kv' = kv /\ calls' = calls /\ ExchangeCalls(lastOp') = <<>>) ]_vars

\* C1 witness: a key whose order was placed gets a second signal, which is
\* turned away as pending or done.
C1_Witness ==
    /\ lastOp.op = "on_signal"
    /\ lastOp.branch \in {"pending", "done"}
    /\ calls.place[lastOp.key] = 1

\* C2 (as claimed): at most one key has a pending marker, and it is the key
\* recorded in pending_current_idem.
C2_SinglePendingKey ==
    /\ Cardinality(PendingKeys) <= 1
    /\ \A k \in PendingKeys : kv.cur = k

\* C3: the done marker is terminal: it is never removed, and once it is set
\* no placement, query, cancel or TP/SL call is issued for the key.
C3_DoneIsTerminal ==
    [][ \A k \in Keys :
          kv.done[k] =>
            /\ kv'.done[k]
            /\ calls'.place[k] = calls.place[k]
            /\ calls'.tpsl[k] = calls.tpsl[k]
            /\ (OpStep /\ lastOp'.key = k) => ExchangeCalls(lastOp') = <<>> ]_vars

\* C3 witness: a key whose order was placed is done, and housekeep has run
\* again since.
C3_Witness ==
    \E k \in Keys :
        /\ kv.done[k]
        /\ calls.place[k] = 1
        /\ lastOp.op = "housekeep"
        /\ lastOp.branch = "no_pending"

\* C4: the TP/SL call is issued at most once per key over any sequence of
\* housekeep ticks; a tick in which the exchange reports filled (the lookup
\* runs only at or after the timeout) issues exactly one.
C4_TpSlAtMostOnce ==
    /\ [](\A k \in Keys : calls.tpsl[k] <= 1)
    /\ [][ (OpStep /\ lastOp'.op = "housekeep" /\ lastOp'.rep = "filled")
           => /\ calls'.tpsl[lastOp'.key] = calls.tpsl[lastOp'.key] + 1
              /\ Len(SelectSeq(lastOp'.ev, IsTpSl)) = 1
              /\ kv'.done[lastOp'.key] ]_vars

\* C4 witness: a key got its TP/SL call on a filled report, and a later
\* housekeep tick found nothing pending.
C4_Witness ==
    \E k \in Keys :
        /\ calls.tpsl[k] = 1
        /\ kv.done[k]
        /\ lastOp.op = "housekeep"
        /\ lastOp.branch = "no_pending"
        /\ now >= kv.trd + OrderTimeoutSec

\* C8: on a partially_filled report with fill size f > 0, housekeep cancels
\* the remainder, then issues one TP/SL call of size f, then marks the key
\* done and removes the pending markers, whether or not the cancel failed.
C8_PartialFill ==
    (lastOp.op = "housekeep" /\ lastOp.rep = "partially_filled" /\ lastOp.acc > 0)
    => /\ CallsAndMarks(lastOp) = <<"query", "cancel", "tpsl", "set_done", "cleanup">>
       /\ lastOp.tpslSz = lastOp.acc
       /\ kv.done[lastOp.key]
       /\ kv.pcl[lastOp.key] = ""
       /\ kv.pts[lastOp.key] = 0
       /\ kv.cur = NoKey

\* C8 witness: a partial fill smaller than the order whose cancel failed.
C8_Witness ==
    /\ lastOp.op = "housekeep"
    /\ lastOp.rep = "partially_filled"
    /\ HasEvent(lastOp, "cancel_err")
    /\ lastOp.acc > 0
    /\ lastOp.acc < ordSz[lastOp.key]
    /\ lastOp.tpslSz = lastOp.acc

(***************************************************************************)
(* The other components' specifications leave the order-lifecycle          *)
(* variables at their initial value.                                       *)
(***************************************************************************)
Cfg0 == [cooldown_sec |-> 0, cancel_on_timeout |-> TRUE, max_positions |-> 1]

OMIdle ==
    /\ now = StartTime
    /\ cfg = Cfg0
    /\ kv = KV0
    /\ calls = Calls0
    /\ ordSz = [k \in Keys |-> 0]
    /\ lastOp = NoOp
    /\ seq = 0

omVars == <<now, cfg, kv, calls, ordSz, lastOp, seq>>

(***************************************************************************)
(* _margin_gate on its own: the inputs are drawn at the start, one step    *)
(* evaluates the gate.                                                     *)
(***************************************************************************)
MaxAvail == 4                 \* largest portfolio.avail_usdt
MaxLev == 2                   \* largest account.leverage
MaxCt == 2                    \* largest contract value
MaxPx == 3                    \* largest bar close

MarginInputs ==
    [ avail : 0 .. MaxAvail, lev : 1 .. MaxLev, ct : 0 .. MaxCt,
      px : 1 .. MaxPx, sz : 1 .. MaxSz, num : 1 .. RatioDen, res : {"unset"} ]

InitMargin ==
    /\ OMIdle
    /\ mg \in MarginInputs
    /\ rq = Idle /\ fl = Idle /\ lk = Idle /\ ws = Idle /\ XIdle

MarginGateCall ==
    /\ mg.res = "unset"
    /\ mg' = [mg EXCEPT !.res =
                IF MarginGate(mg.avail, mg.lev, mg.ct, mg.px, mg.sz, mg.num)
                THEN "pass" ELSE "block"]
    /\ UNCHANGED <<omVars, rq, fl, lk, ws, xVars>>

SpecMargin == InitMargin /\ [][MarginGateCall]_vars

\* C6: with a known contract value and a positive balance B, the gate
\* passes iff M = last_px * ct_val * sz / leverage <= B * r; M = B * r passes.
C6_MarginGateIff ==
    (mg.res # "unset" /\ mg.ct > 0 /\ mg.avail > 0)
    => (mg.res = "pass"
        <=> mg.px * mg.ct * mg.sz * RatioDen <= mg.avail * mg.num * mg.lev)

\* C6 witness: the boundary M = B * r, with leverage above 1, passes.
C6_Witness ==
    /\ mg.res = "pass"
    /\ mg.ct > 0
    /\ mg.lev > 1
    /\ mg.num < RatioDen
    /\ mg.px * mg.ct * mg.sz * RatioDen = mg.avail * mg.num * mg.lev

(***************************************************************************)
(* OKXRest._request: the classification of one HTTP exchange.  A path is   *)
(* its sequence of segments; the response is the transport outcome, the    *)
(* status code, whether the body parses as JSON, the envelope's code and   *)
(* the first row of data (its sCode), if there is one.                     *)
(***************************************************************************)
Paths ==
    { <<"api", "v5", "trade", "order">>,
      <<"api", "v5", "trade", "cancel-order">>,
      <<"api", "v5", "trade", "order-algo">>,
      <<"api", "v5", "trade", "orders-history">>,
      <<"api", "v5", "account", "balance">>,
      <<"api", "v5", "public", "instruments">> }

Statuses == {200, 201, 302, 400, 404, 500}
EnvelopeCodes == {"0", "", "1", "50119", "51603"}
NoRow == "no row"             \* data is missing, empty or not a list
NoSCode == "no sCode"         \* the first row has no sCode (or None)
FirstRows == {NoRow, NoSCode, "", "0", "51008"}

Responses ==
    [ path : Paths, sent : BOOLEAN, status : Statuses, json : BOOLEAN,
      code : EnvelopeCodes, row : FirstRows, res : {"unset"} ]

\* path.startswith("/api/v5/trade/")
IsTradePath(path) ==
    Len(path) > 3 /\ SubSeq(path, 1, 3) = <<"api", "v5", "trade">>

\* str(rows[0].get("sCode") or "0")
SCodeOf(row) == IF row \in {NoSCode, ""} THEN "0" ELSE row

\* a mutant of the sub-status rule: the first row is never looked at
SubStatusFailedOff(r) == FALSE

\* the trade rule: the first row's sCode is not "0"
SubStatusFailed(r) ==
    IsTradePath(r.path) /\ r.row # NoRow /\ SCodeOf(r.row) # "0"

Request(r) ==
    IF ~r.sent THEN "raise"                   \* requests.RequestException
    ELSE IF r.status >= 400 THEN "raise"      \* requests.HTTPError
    ELSE IF ~r.json THEN "raise"              \* invalid JSON
    ELSE IF r.code # "0" THEN "raise"         \* OKX API error
    ELSE IF SubStatusFailed(r) THEN "raise"   \* OKX TRADE OP FAILED
    ELSE "return"

InitReq ==
    /\ OMIdle
    /\ rq \in Responses
    /\ mg = Idle /\ fl = Idle /\ lk = Idle /\ ws = Idle /\ XIdle

RequestCall ==
    /\ rq.res = "unset"
    /\ rq' = [rq EXCEPT !.res = Request(rq)]
    /\ UNCHANGED <<omVars, mg, fl, lk, ws, xVars>>

SpecReq == InitReq /\ [][RequestCall]_vars

\* C5 (as claimed): a response is returned only if the status is 2xx, the
\* top-level code is "0" and, on a trade path, the first row's sCode is "0";
\* in every other case the call raises.
C5_AsClaimed ==
    rq.res # "unset" =>
        (rq.res = "return"
         <=> /\ rq.sent /\ rq.json
             /\ rq.status \in 200 .. 299
             /\ rq.code = "0"
             /\ IsTradePath(rq.path) => rq.row = "0")

\* C5 (amended): a response is returned only if the status is below 400,
\* the body is JSON, the top-level code is "0" and, on a trade path, the
\* first row, if there is one, has no sCode, an empty one or "0"; in every
\* other case the call raises, so a trade response with code "0" and a
\* non-zero first-row sCode is never returned.
C5_Classification ==
    rq.res # "unset" =>
        /\ rq.res = "return"
           <=> /\ rq.sent /\ rq.json
               /\ rq.status < 400
               /\ rq.code = "0"
               /\ IsTradePath(rq.path) => rq.row \in {NoRow, NoSCode, "", "0"}
        /\ (IsTradePath(rq.path) /\ rq.row \notin {NoRow, NoSCode, "", "0"})
           => rq.res = "raise"

\* C5 witness: a 200 answer on the order endpoint with code "0" and a
\* failing sCode in its first row was raised.
C5_Witness ==
    /\ rq.res = "raise"
    /\ rq.path = <<"api", "v5", "trade", "order">>
    /\ rq.sent /\ rq.json /\ rq.status = 200 /\ rq.code = "0"
    /\ rq.row = "51008"

(***************************************************************************)
(* OKXRest._floor_to_step.  x and step are decimal numbers (Decimal(str()) *)
(* is exact), here counted in units of the smallest decimal place.         *)
(***************************************************************************)
MaxX == 6                     \* x ranges over -MaxX .. MaxX
MaxStep == 3                  \* step ranges over -1 .. MaxStep

\* to_integral_value(rounding=ROUND_DOWN): the quotient truncated towards 0
RoundDown(a, b) == IF a >= 0 THEN a \div b ELSE -((-a) \div b)

FloorToStep(x, step) ==
    IF step <= 0 THEN x ELSE RoundDown(x, step) * step

FloorInputs == [x : -MaxX .. MaxX, step : -1 .. MaxStep, done : {FALSE}, res : {0}]

InitFloor ==
    /\ OMIdle
    /\ fl \in FloorInputs
    /\ mg = Idle /\ rq = Idle /\ lk = Idle /\ ws = Idle /\ XIdle

FloorCall ==
    /\ ~fl.done
    /\ fl' = [fl EXCEPT !.done = TRUE, !.res = FloorToStep(fl.x, fl.step)]
    /\ UNCHANGED <<omVars, mg, rq, lk, ws, xVars>>

SpecFloor == InitFloor /\ [][FloorCall]_vars

\* C7 (as claimed): for step > 0 the result is the greatest multiple of step
\* that is <= x, for every x; for step <= 0 the result is x.
C7_FloorToStep ==
    fl.done =>
        IF fl.step > 0
        THEN /\ fl.res % fl.step = 0
             /\ fl.res <= fl.x
             /\ fl.x < fl.res + fl.step
        ELSE fl.res = fl.x

\* The part of C7 that holds: the same, for x >= 0.
C7_FloorToStepNonNegative ==
    (fl.done /\ fl.x >= 0) =>
        IF fl.step > 0
        THEN /\ fl.res % fl.step = 0
             /\ fl.res <= fl.x
             /\ fl.x < fl.res + fl.step
        ELSE fl.res = fl.x

(***************************************************************************)
(* OKXRest.get_order_anywhere.  The exchange data of one lookup: what the  *)
(* live-order endpoint answers, and for order history and for the archive  *)
(* the number n of non-empty pages, the page m that holds the row with the *)
(* client order id (0: none), the page whose request raises (0: none) and  *)
(* the page whose last row carries no ordId (0: none).  A page is reached  *)
(* through the ordId of the last row of the page before it; the page after *)
(* the last one is empty.                                                  *)
(***************************************************************************)
max_pages == 10               \* _search_history_paged(..., max_pages=10)
MaxHistPages == 11            \* most pages an endpoint holds
ErrPages == {0, 2}            \* the page whose request fails
NoCursorPages == {0, 2}       \* the page whose last row has no ordId

\* the live query: the order, error 51603, another error, or another error
\* whose text happens to contain "51603"
LiveAnswers == {"found", "51603", "other", "other mentioning 51603"}

Endpoint(n, m, err, nocur) == [n |-> n, m |-> m, err |-> err, nocur |-> nocur]

HistoryData == {Endpoint(n, m, e, c) : n \in 0 .. MaxHistPages, m \in 0 .. MaxHistPages,
                                       e \in ErrPages, c \in NoCursorPages}

ArchiveData == {Endpoint(n, m, 0, 0) : n \in 0 .. MaxHistPages, m \in 0 .. MaxHistPages}

WellFormed(ep) == ep.m <= ep.n /\ ep.nocur <= ep.n

\* the answer to the request with cursor `after` (0: the first page)
PageAfter(ep, after) ==
    LET i == after + 1
    IN  IF ep.err = i THEN "error"
        ELSE IF i > ep.n THEN "empty"
        ELSE IF ep.m = i THEN "match"
        ELSE "no match"

\* rows[-1].get("ordId") of page i: the cursor of the next request
LastOrdId(ep, i) == IF ep.nocur = i THEN 0 ELSE i

Found(src, page, reqs) == [res |-> "found", src |-> src, page |-> page, reqs |-> reqs]
NotFound(reqs) == [res |-> "none", src |-> "", page |-> 0, reqs |-> reqs]
Raised(reqs) == [res |-> "raise", src |-> "", page |-> 0, reqs |-> reqs]

RECURSIVE SearchFrom(_, _, _, _, _)
\* the loop of _search_history_paged: `left` iterations remain
SearchFrom(ep, src, after, left, reqs) ==
    IF left = 0 THEN NotFound(reqs)
    ELSE LET rows == PageAfter(ep, after)
         IN  IF rows = "error" THEN Raised(reqs + 1)
             ELSE IF rows = "match" THEN Found(src, after + 1, reqs + 1)
             ELSE IF rows = "empty" THEN NotFound(reqs + 1)
             ELSE IF LastOrdId(ep, after + 1) = 0 THEN NotFound(reqs + 1)
             ELSE SearchFrom(ep, src, LastOrdId(ep, after + 1), left - 1, reqs + 1)

\* a mutant of _search_history_paged: the loop has no page bound
SearchHistoryUnbounded(ep, src) == SearchFrom(ep, src, 0, MaxHistPages + 2, 0)

\* a mutant of _search_history_paged: only the first page is read
SearchHistoryFirstPageOnly(ep, src) == SearchFrom(ep, src, 0, 1, 0)

SearchHistoryPaged(ep, src) == SearchFrom(ep, src, 0, max_pages, 0)

\* "51603" in str(e)
Mentions51603(live) == live \in {"51603", "other mentioning 51603"}

Lookup(res, src, page, visited, hreqs, areqs) ==
    [res |-> res, src |-> src, page |-> page, visited |-> visited,
     hreqs |-> hreqs, areqs |-> areqs]

GetOrderAnywhere(d) ==
    IF d.live = "found" THEN Lookup("found", "live", 0, <<"live">>, 0, 0)
    ELSE IF ~Mentions51603(d.live) THEN Lookup("raise", "", 0, <<"live">>, 0, 0)
    ELSE LET h == SearchHistoryPaged(d.hist, "history")
         IN  IF h.res = "raise"
             THEN Lookup("raise", "", 0, <<"live", "history">>, h.reqs, 0)
             ELSE IF h.res = "found"
             THEN Lookup("found", "history", h.page, <<"live", "history">>, h.reqs, 0)
             ELSE LET a == SearchHistoryPaged(d.arch, "archive")
                      v == <<"live", "history", "archive">>
                  IN  IF a.res = "raise" THEN Lookup("raise", "", 0, v, h.reqs, a.reqs)
                      ELSE IF a.res = "found"
                      THEN Lookup("found", "archive", a.page, v, h.reqs, a.reqs)
                      ELSE Lookup("not found", "", 0, v, h.reqs, a.reqs)

InitLookup ==
    /\ OMIdle
    /\ lk \in [live : LiveAnswers, hist : {e \in HistoryData : WellFormed(e)},
               arch : {e \in ArchiveData : WellFormed(e)},
               out : {Lookup("unset", "", 0, <<>>, 0, 0)}]
    /\ mg = Idle /\ rq = Idle /\ fl = Idle /\ ws = Idle /\ XIdle

LookupCall ==
    /\ lk.out.res = "unset"
    /\ lk' = [lk EXCEPT !.out = GetOrderAnywhere(lk)]
    /\ UNCHANGED <<omVars, mg, rq, fl, ws, xVars>>

SpecLookup == InitLookup /\ [][LookupCall]_vars

\* the row is on a page within the page bound, every page up to it is served
\* and every page before it ends in a row with an ordId
MatchWithinBound(ep) ==
    /\ ep.m \in 1 .. max_pages
    /\ ep.err = 0 \/ ep.err > ep.m
    /\ ep.nocur = 0 \/ ep.nocur >= ep.m

\* the endpoint has no such row within the page bound and serves every page
\* the search asks for
NoMatchWithinBound(ep) ==
    /\ ep.m \notin 1 .. max_pages
    /\ ep.err = 0 \/ ep.err > Min(ep.n + 1, max_pages)

IsPrefix(a, b) == Len(a) <= Len(b) /\ a = SubSeq(b, 1, Len(a))

\* C9: the lookup asks the live endpoint, then history, then the archive;
\* when the live query answers 51603 and the order is on a page of history
\* within the page bound (or, failing that, of the archive), that row is
\* returned and not-found is not raised.
C9_ExhaustiveLookup ==
    lk.out.res # "unset" =>
        /\ IsPrefix(lk.out.visited, <<"live", "history", "archive">>)
        /\ (lk.live = "51603" /\ MatchWithinBound(lk.hist))
           => /\ lk.out.res = "found"
              /\ lk.out.src = "history"
              /\ lk.out.page = lk.hist.m
        /\ (lk.live = "51603" /\ NoMatchWithinBound(lk.hist) /\ MatchWithinBound(lk.arch))
           => /\ lk.out.res = "found"
              /\ lk.out.src = "archive"
              /\ lk.out.page = lk.arch.m

\* C9 witness: live answers 51603, page 1 of history has no match, page 2 has
\* it, and the lookup returned the row from page 2.
C9_Witness ==
    /\ lk.out.res # "unset"
    /\ lk.live = "51603"
    /\ lk.hist.m = 2
    /\ lk.out.res = "found"
    /\ lk.out.src = "history"
    /\ lk.out.page = 2
    /\ lk.out.hreqs = 2

(***************************************************************************)
(* OKXPrivateWS.  `ws` holds the object's fields and the position of its   *)
(* thread: "dead" (no live thread), "top" (at the while test of            *)
(* _run_loop), "connecting" (_connect_once has built the socket and        *)
(* run_forever is dialling), "open" (run_forever is dispatching            *)
(* callbacks), "after" (run_forever has returned) and "sleep".  Callbacks  *)
(* run in the thread, one at a time; start() and stop() are called from    *)
(* the main thread.  `attempts` counts the calls of _connect_once,         *)
(* `threads` the threads started, `last` names the last step taken.        *)
(* Whether the library still delivers a message after close() was asked    *)
(* for is left open: both happen.                                          *)
(***************************************************************************)
MaxFailureLimit == 2          \* largest ws_private_max_login_failures
MaxFailCount == 3             \* cap of _login_failures
MaxAttempts == 3              \* cap of connection attempts
MaxThreads == 2               \* cap of threads started
MaxLogins == 2                \* login-success events counted per connection

\* subs = [{"channel": "account"}, {"channel": "positions", ...},
\*         {"channel": "orders", ...}]
Channels == <<"account", "positions", "orders">>

NoSubs == [i \in DOMAIN Channels |-> 0]

\* `subs` counts, per channel, the subscribe messages sent on the current
\* connection and `logins` the login-success events received on it.
WS0(creds, maxf) ==
    [pc |-> "dead", disabled |-> FALSE, failures |-> 0, maxf |-> maxf,
     creds |-> creds, stop |-> FALSE, connected |-> FALSE, authed |-> FALSE,
     subscribed |-> FALSE, closeReq |-> FALSE, attempts |-> 0, threads |-> 0,
     last |-> "init", ended |-> "", subs |-> NoSubs, logins |-> 0]

InitPWS ==
    /\ OMIdle
    /\ ws \in {WS0(c, m) : c \in BOOLEAN, m \in 1 .. MaxFailureLimit}
    /\ mg = Idle /\ rq = Idle /\ fl = Idle /\ lk = Idle /\ XIdle

PWSOthers == UNCHANGED <<omVars, mg, rq, fl, lk, xVars>>

\* a mutant of the breaker test: trips one failure late
BreakerTrippedLate(failures, maxf) == failures > maxf

\* self._login_failures >= self.max_login_failures
BreakerTripped(failures, maxf) == failures >= maxf

Disable(w) == [w EXCEPT !.disabled = TRUE, !.closeReq = TRUE]

\* a mutant of the failure branches: every failure disables the stream
DisableAlways(w) == Disable(w)

\* the tail of both failure branches of _handle_message
DisableOrClose(w) ==
    IF BreakerTripped(w.failures, w.maxf) THEN Disable(w)
    ELSE [w EXCEPT !.closeReq = TRUE]

Start ==
    /\ ws' = IF ws.disabled THEN [ws EXCEPT !.last = "start_skipped"]
             ELSE IF ws.pc # "dead" THEN [ws EXCEPT !.last = "start_alive"]
             ELSE IF ws.threads < MaxThreads
             THEN [ws EXCEPT !.stop = FALSE, !.threads = @ + 1, !.pc = "top",
                             !.last = "start_thread"]
             ELSE ws
    /\ PWSOthers

Stop ==
    /\ ws' = [ws EXCEPT !.stop = TRUE,
                        !.closeReq = @ \/ ws.attempts > 0,
                        !.last = "stop"]
    /\ PWSOthers

LoopTop ==
    /\ ws.pc = "top"
    /\ ws' = IF ws.stop \/ ws.disabled
             THEN [ws EXCEPT !.pc = "dead", !.last = "loop_exit"]
             ELSE IF ws.attempts < MaxAttempts
             THEN [ws EXCEPT !.pc = "connecting", !.attempts = @ + 1,
                             !.connected = FALSE, !.authed = FALSE,
                             !.subscribed = FALSE, !.closeReq = FALSE,
                             !.subs = NoSubs, !.logins = 0,
                             !.last = "connect"]
             ELSE ws
    /\ PWSOthers

\* a mutant of a failed connection: it counts as a login failure
ConnectFailCounts ==
    /\ ws.pc = "connecting"
    /\ ws.failures < MaxFailCount
    /\ ws' = [ws EXCEPT !.pc = "after", !.last = "connect_failed",
                        !.ended = "connect_failed", !.failures = @ + 1]
    /\ PWSOthers

ConnectFail ==
    /\ ws.pc = "connecting"
    /\ ws' = [ws EXCEPT !.pc = "after", !.last = "connect_failed",
                        !.ended = "connect_failed"]
    /\ PWSOthers

OnOpen ==
    /\ ws.pc = "connecting"
    /\ LET w == [ws EXCEPT !.pc = "open", !.connected = TRUE, !.last = "on_open"]
       IN  ws' = IF ~w.creds THEN Disable(w) ELSE w
    /\ PWSOthers

\* the three sends of _subscribe_after_login; sendOk[i] is whether the i-th
\* self._ws.send returns rather than raises
SendSubs(w, sendOk) ==
    [w EXCEPT !.subs = [i \in DOMAIN Channels |->
                           IF sendOk[i] THEN w.subs[i] + 1 ELSE w.subs[i]],
              !.subscribed = TRUE]

\* a mutant of _subscribe_after_login: it does not test self._subscribed
SubscribeEveryLogin(w, sendOk) == SendSubs(w, sendOk)

\* _subscribe_after_login: if not self._ws or self._subscribed: return
SubscribeAfterLogin(w, sendOk) ==
    IF w.subscribed THEN w ELSE SendSubs(w, sendOk)

RecvLoginOk ==
    /\ ws.pc = "open"
    /\ \E sendOk \in [DOMAIN Channels -> BOOLEAN] :
          ws' = SubscribeAfterLogin(
                   [ws EXCEPT !.authed = TRUE, !.failures = 0,
                              !.logins = IF @ < MaxLogins THEN @ + 1 ELSE @,
                              !.last = "login_ok"], sendOk)
    /\ PWSOthers

RecvLoginFail ==
    /\ ws.pc = "open"
    /\ ws.failures < MaxFailCount
    /\ ws' = DisableOrClose([ws EXCEPT !.failures = @ + 1, !.last = "login_fail"])
    /\ PWSOthers

\* code in ("60031", "60032", "50119", "50101")
CredentialCodes == {"60031", "60032", "50119", "50101"}

\* the codes of the error events received: the four above and another one
ErrorCodes == CredentialCodes \cup {"60018"}

\* code in (...) or "API key" in err_msg
CountsAsFailure(code, apiKeyMsg) == code \in CredentialCodes \/ apiKeyMsg

RecvError ==
    /\ ws.pc = "open"
    /\ ws.failures < MaxFailCount
    /\ \E code \in ErrorCodes, apiKeyMsg \in BOOLEAN :
          ws' = DisableOrClose(
                   [ws EXCEPT !.failures = IF CountsAsFailure(code, apiKeyMsg)
                                           THEN @ + 1 ELSE @,
                              !.last = IF code \in CredentialCodes THEN "error_cred"
                                       ELSE IF apiKeyMsg THEN "error_api_key_msg"
                                       ELSE "error_other"])
    /\ PWSOthers

OnClose ==
    /\ ws.pc = "open"
    /\ ws' = [ws EXCEPT !.pc = "after", !.connected = FALSE, !.authed = FALSE,
                        !.last = "on_close",
                        !.ended = IF ws.closeReq THEN "closed" ELSE "dropped"]
    /\ PWSOthers

LoopAfter ==
    /\ ws.pc = "after"
    /\ ws' = IF ws.stop \/ ws.disabled
             THEN [ws EXCEPT !.pc = "dead", !.last = "loop_exit"]
             ELSE [ws EXCEPT !.pc = "sleep", !.last = "sleep"]
    /\ PWSOthers

SleepDone ==
    /\ ws.pc = "sleep"
    /\ ws' = [ws EXCEPT !.pc = "top", !.last = "wake"]
    /\ PWSOthers

NextPWS ==
    \/ Start
    \/ Stop
    \/ LoopTop
    \/ ConnectFail
    \/ OnOpen
    \/ RecvLoginOk
    \/ RecvLoginFail
    \/ RecvError
    \/ OnClose
    \/ LoopAfter
    \/ SleepDone

SpecPWS == InitPWS /\ [][NextPWS]_vars

\* C10: once the failure counter has reached max_login_failures the stream is
\* disabled; a disabled stream stays disabled, makes no further connection
\* attempt, gets no new thread from start(), and its thread is inside the
\* connection being closed, on its way out of the loop, or gone.
C10_CircuitBreaker ==
    /\ [](ws.failures >= ws.maxf => ws.disabled)
    /\ [](ws.disabled => ws.pc \in {"open", "after", "dead"})
    /\ [][ws.disabled =>
            /\ ws'.disabled
            /\ ws'.attempts = ws.attempts
            /\ ws'.threads = ws.threads
            /\ ws.pc = "after" /\ ws'.pc # ws.pc => ws'.pc = "dead"
            /\ ws.pc = "open" /\ ws'.pc # ws.pc => ws'.pc = "after"
            /\ ws.pc = "dead" => ws'.pc = "dead"]_vars

\* C10 witness: the counter reached the limit, the stream is disabled, its
\* thread has exited, and a later start() has been skipped.
C10_Witness ==
    /\ ws.disabled
    /\ ws.failures >= ws.maxf
    /\ ws.creds
    /\ ws.pc = "dead"
    /\ ws.last = "start_skipped"

\* C31: on each connection every channel's subscribe message is sent at most
\* once; a subscribe message is sent only in the handling of a login-success
\* event, and only of the first one received on the connection; the counts
\* start again from zero only when a new connection is made.
C31_SubscribeOncePerConnection ==
    /\ [](\A i \in DOMAIN Channels : ws.subs[i] <= 1)
    /\ []((\E i \in DOMAIN Channels : ws.subs[i] > 0) => ws.logins > 0)
    /\ [][ws'.subs # ws.subs =>
            \/ /\ ws'.last = "login_ok"
               /\ ws.logins = 0 /\ ws'.logins = 1
               /\ ws.pc = "open" /\ ws'.attempts = ws.attempts
            \/ /\ ws'.last = "connect"
               /\ ws'.attempts = ws.attempts + 1
               /\ ws'.subs = NoSubs]_vars

\* C31 witness: on the second connection a login success has been received
\* twice and each of the three subscribe messages has been sent once.
C31_Witness ==
    /\ ws.attempts = 2
    /\ ws.logins = 2
    /\ ws.last = "login_ok"
    /\ \A i \in DOMAIN Channels : ws.subs[i] = 1

(***************************************************************************)
(* OKXRest._request up to the HTTP call, and _sign.  Strings are strings;  *)
(* params is the dict in insertion order, a sequence of <<key, value>>     *)
(* with None for an absent value.  `sg` holds one timestamp, method, path  *)
(* and data and two params dicts: two requests that differ in their params *)
(* only, and for each what was built: the URL handed to the session, the   *)
(* body sent and the pre-hash handed to the HMAC.                          *)
(***************************************************************************)
None == "None"
BaseUrl == "https://www.okx.com"
Timestamps == {"2020-12-08T09:08:57.715Z", "2020-12-08T09:08:58.000Z"}
Methods == {"GET", "get", "POST", "post", "DELETE"}
SignPaths == {"/api/v5/trade/order", "/api/v5/trade/orders-history"}
ParamKeys == {"instId", "after"}
ParamValues == {None, "BTC-USDT-SWAP", "a b"}
DataValues == {"", "sz"}

ParamDicts ==
    {<<>>}
    \cup {<<<<k, v>>>> : k \in ParamKeys, v \in ParamValues}
    \cup {d \in {<<<<k1, v1>>, <<k2, v2>>>> :
                        k1 \in ParamKeys, k2 \in ParamKeys, v1 \in ParamValues,
                        v2 \in ParamValues} : d[1][1] # d[2][1]}

\* str.upper()
Upper(m) ==
    IF m = "get" THEN "GET" ELSE IF m = "post" THEN "POST" ELSE m

\* urllib.parse.quote_plus
QuotePlus(v) == IF v = "a b" THEN "a+b" ELSE v

RECURSIVE UrlEncode(_)
\* urlencode({k: v for k, v in params.items() if v is not None})
UrlEncode(params) ==
    IF params = <<>> THEN ""
    ELSE LET kvp == Head(params)
             rest == UrlEncode(Tail(params))
         IN  IF kvp[2] = None THEN rest
             ELSE kvp[1] \o "=" \o QuotePlus(kvp[2])
                  \o (IF rest = "" THEN "" ELSE "&" \o rest)

\* a mutant of the request path: the query string is left out
RequestPathNoQuery(path, query) == path

\* request_path = path + (f"?{query}" if query else "")
RequestPath(path, query) == IF query = "" THEN path ELSE path \o "?" \o query

\* json.dumps(data, separators=(",", ":"))
JsonDumps(data) == IF data = "" THEN "{}" ELSE "{\"" \o data \o "\":\"1\"}"

BodyStr(method, data) == IF method \in {"POST", "PUT"} THEN JsonDumps(data) ELSE ""

\* _sign: the string the HMAC is computed over
PreHash(ts, method, request_path, body) == ts \o Upper(method) \o request_path \o body

Unsent == [res |-> "unset", url |-> "", body |-> "", prehash |-> "", signed |-> FALSE]

BuildRequest(ts, method0, path, params, data, auth, creds) ==
    LET method == Upper(method0)
        request_path == RequestPath(path, UrlEncode(params))
        body_str == BodyStr(method, data)
    IN  IF auth /\ ~creds
        THEN [Unsent EXCEPT !.res = "raise"]
        ELSE [res |-> "sent", url |-> BaseUrl \o request_path,
              body |-> IF method \in {"GET", "DELETE"} THEN "" ELSE body_str,
              prehash |-> IF auth THEN PreHash(ts, method, request_path, body_str) ELSE "",
              signed |-> auth]

oldVars == <<mg, rq, fl, lk, ws>>

OldIdle == mg = Idle /\ rq = Idle /\ fl = Idle /\ lk = Idle /\ ws = Idle

InitSign ==
    /\ OMIdle
    /\ OldIdle
    /\ sg \in [ts : Timestamps, method : Methods, path : SignPaths, data : DataValues,
               auth : BOOLEAN, creds : BOOLEAN, params : [1 .. 2 -> ParamDicts],
               out : {[i \in 1 .. 2 |-> Unsent]}]
    /\ cl = Idle /\ hk = Idle /\ loop = Idle /\ pub = Idle

SendRequest ==
    /\ \E i \in 1 .. 2 :
          /\ sg.out[i].res = "unset"
          /\ sg' = [sg EXCEPT !.out[i] =
                       BuildRequest(sg.ts, sg.method, sg.path, sg.params[i], sg.data,
                                    sg.auth, sg.creds)]
    /\ UNCHANGED <<omVars, oldVars, cl, hk, loop, pub>>

SpecSign == InitSign /\ [][SendRequest]_vars

\* the query string the exchange receives: the URL without base URL and path
QueryPart(i) ==
    LET q == UrlEncode(sg.params[i]) IN IF q = "" THEN "" ELSE "?" \o q

\* C11: a signed request is signed over timestamp, upper-cased method, path
\* with query string and body, the signed path is the one appended to the
\* base URL, and two signed requests that differ only in their query string
\* have different pre-hash strings.
C11_SignedWithQuery ==
    /\ \A i \in 1 .. 2 :
          sg.out[i].signed =>
             /\ sg.out[i].url = BaseUrl \o sg.path \o QueryPart(i)
             /\ sg.out[i].prehash =
                   sg.ts \o Upper(sg.method) \o sg.path \o QueryPart(i)
                   \o BodyStr(Upper(sg.method), sg.data)
    /\ (sg.out[1].signed /\ sg.out[2].signed /\ sg.out[1].url # sg.out[2].url)
       => sg.out[1].prehash # sg.out[2].prehash

\* C11 witness: two signed GET requests on the same path, one with a query
\* string and one with another, both sent.
C11_Witness ==
    /\ sg.out[1].signed /\ sg.out[2].signed
    /\ Upper(sg.method) = "GET"
    /\ UrlEncode(sg.params[1]) # ""
    /\ UrlEncode(sg.params[2]) # ""
    /\ sg.out[1].url # sg.out[2].url
    /\ sg.out[1].prehash # sg.out[2].prehash

(***************************************************************************)
(* The operations of OKXRest as the HTTP requests they send.  `cl` holds   *)
(* the instrument-spec cache (does it hold the instrument), and for the    *)
(* last invocation its name, whether the cache was cold when it began, the *)
(* POST and GET requests it sent and how it ended.  `outcomes[i]` tells    *)
(* whether the i-th HTTP request of a retried call succeeds.               *)
(***************************************************************************)
RetryTries == 3               \* @retry(tries=3, delay=0.5)
MaxInvocations == 4           \* cap of client invocations

Outcomes == [1 .. RetryTries -> BOOLEAN]

MutatingOps == {"place_order", "place_market_with_tp_sl", "cancel_order", "place_tp_sl_algo"}
RetriedOps == {"get_account_config", "get_instrument_spec", "get_candles",
               "get_account_balance", "get_positions"}

\* a mutant: every operation is wrapped in the retry decorator
TriesAllRetried(op) == RetryTries

\* the number of times the operation's body may run
Tries(op) == IF op \in RetriedOps THEN RetryTries ELSE 1

RECURSIVE FirstOk(_, _, _)
FirstOk(outcomes, i, tries) ==
    IF i > tries THEN 0
    ELSE IF outcomes[i] THEN i
    ELSE FirstOk(outcomes, i + 1, tries)

\* utils.retry.retry around a body that sends one request per run
Retry(op, outcomes) ==
    LET k == FirstOk(outcomes, 1, Tries(op))
    IN  [sent |-> IF k = 0 THEN Tries(op) ELSE k, ok |-> k # 0]

\* _must_spec: the cache, or get_instrument_spec
MustSpec(cache, outcomes) ==
    IF cache THEN [gets |-> 0, ok |-> TRUE, cache |-> TRUE]
    ELSE LET r == Retry("get_instrument_spec", outcomes)
         IN  [gets |-> r.sent, ok |-> r.ok, cache |-> r.ok]

\* round_to_tick(px, inst_id): px is None (-1), not positive (0) or positive
RoundToTick(px, cache, outcomes) ==
    IF px <= 0 THEN [gets |-> 0, ok |-> TRUE, cache |-> cache]
    ELSE MustSpec(cache, outcomes)

Invocation(c, op, posts, gets, res, cache) ==
    [cache |-> cache, cold |-> ~c.cache, op |-> op, posts |-> posts, gets |-> gets,
     res |-> res, n |-> c.n + 1]

\* self._request("POST", ...) of a mutating operation
PostOf(c, op, gets, cache, outcomes) ==
    LET r == Retry(op, outcomes)
    IN  Invocation(c, op, r.sent, gets, IF r.ok THEN "return" ELSE "raise", cache)

place_order(c, op, outcomes) == PostOf(c, op, 0, c.cache, outcomes)

place_market_with_tp_sl(c, sz, inst, outcomes) ==
    IF sz <= 0 \/ ~inst
    THEN Invocation(c, "place_market_with_tp_sl", 0, 0, "local_reject", c.cache)
    ELSE place_order(c, "place_market_with_tp_sl", outcomes)

cancel_order(c, inst, id, outcomes) ==
    IF ~inst \/ ~id THEN Invocation(c, "cancel_order", 0, 0, "raise", c.cache)
    ELSE PostOf(c, "cancel_order", 0, c.cache, outcomes)

place_tp_sl_algo(c, valid, sz, tp, sl, specOutcomes, outcomes) ==
    IF ~valid \/ sz <= 0 THEN Invocation(c, "place_tp_sl_algo", 0, 0, "raise", c.cache)
    ELSE LET t == IF tp = -1 THEN [gets |-> 0, ok |-> TRUE, cache |-> c.cache]
                  ELSE RoundToTick(tp, c.cache, specOutcomes)
         IN  IF ~t.ok THEN Invocation(c, "place_tp_sl_algo", 0, t.gets, "raise", t.cache)
             ELSE LET u == IF sl = -1 THEN [gets |-> 0, ok |-> TRUE, cache |-> t.cache]
                           ELSE RoundToTick(sl, t.cache, specOutcomes)
                  IN  IF ~u.ok
                      THEN Invocation(c, "place_tp_sl_algo", 0, t.gets + u.gets, "raise",
                                      u.cache)
                      ELSE PostOf(c, "place_tp_sl_algo", t.gets + u.gets, u.cache, outcomes)

get_account_balance(c, outcomes) ==
    LET r == Retry("get_account_balance", outcomes)
    IN  Invocation(c, "get_account_balance", 0, r.sent,
                   IF r.ok THEN "return" ELSE "raise", c.cache)

Client0(cache) ==
    [cache |-> cache, cold |-> ~cache, op |-> "none", posts |-> 0, gets |-> 0,
     res |-> "", n |-> 0]

InitClient ==
    /\ OMIdle
    /\ OldIdle
    /\ cl \in {Client0(cache) : cache \in BOOLEAN}
    /\ sg = Idle /\ hk = Idle /\ loop = Idle /\ pub = Idle

ClientOthers == UNCHANGED <<omVars, oldVars, sg, hk, loop, pub>>

PlaceOrder ==
    /\ cl.n < MaxInvocations
    /\ \E o \in Outcomes : cl' = place_order(cl, "place_order", o)
    /\ ClientOthers

PlaceMarketWithTpSl ==
    /\ cl.n < MaxInvocations
    /\ \E sz \in 0 .. 1, inst \in BOOLEAN, o \in Outcomes :
          cl' = place_market_with_tp_sl(cl, sz, inst, o)
    /\ ClientOthers

CancelOrder ==
    /\ cl.n < MaxInvocations
    /\ \E inst \in BOOLEAN, id \in BOOLEAN, o \in Outcomes :
          cl' = cancel_order(cl, inst, id, o)
    /\ ClientOthers

PlaceTpSlAlgo ==
    /\ cl.n < MaxInvocations
    /\ \E valid \in BOOLEAN, sz \in 0 .. 1, tp \in -1 .. 1, sl \in -1 .. 1,
          so \in Outcomes, o \in Outcomes :
          cl' = place_tp_sl_algo(cl, valid, sz, tp, sl, so, o)
    /\ ClientOthers

GetAccountBalance ==
    /\ cl.n < MaxInvocations
    /\ \E o \in Outcomes : cl' = get_account_balance(cl, o)
    /\ ClientOthers

NextClient ==
    \/ PlaceOrder
    \/ PlaceMarketWithTpSl
    \/ CancelOrder
    \/ PlaceTpSlAlgo
    \/ GetAccountBalance

SpecClient == InitClient /\ [][NextClient]_vars

\* C12 as claimed: an invocation of a mutating operation sends at most one
\* HTTP request.
C12_AtMostOneRequest ==
    cl.op \in MutatingOps => cl.posts + cl.gets <= 1

\* C12: an invocation of a mutating operation sends its POST at most once,
\* whether it succeeds or fails; place_order, place_market_with_tp_sl and
\* cancel_order send nothing else; place_tp_sl_algo sends in addition the
\* reads of the instrument spec, at most RetryTries of them, and only when
\* the cache did not hold the instrument.
C12_MutationSentOnce ==
    cl.op \in MutatingOps =>
        /\ cl.posts <= 1
        /\ cl.op # "place_tp_sl_algo" => cl.gets = 0
        /\ cl.gets <= RetryTries
        /\ cl.gets > 0 => cl.cold

\* C12 witness: a place_tp_sl_algo with a cold cache read the instrument spec
\* twice, sent its POST once, and the POST failed.
C12_Witness ==
    /\ cl.op = "place_tp_sl_algo"
    /\ cl.cold
    /\ cl.gets = 2
    /\ cl.posts = 1
    /\ cl.res = "raise"

(***************************************************************************)
(* OrderManager.housekeep run by two threads at once.  Each store access   *)
(* and each exchange call is one step; nothing in housekeep or in the      *)
(* store holds a lock across two of them.  The ledger starts with one      *)
(* order pending that has reached its timeout; `hk.report` is what the     *)
(* exchange answers to the lookup, `hk.th[t]` the position of thread t and *)
(* the key it read.                                                        *)
(***************************************************************************)
Threads == {1, 2}

PendingLedger(k) ==
    [KV0 EXCEPT !.cur = k, !.pcl[k] = make_cl_ord_id(k),
                !.pts[k] = StartTime - OrderTimeoutSec, !.trd = StartTime - OrderTimeoutSec]

InitHkThreads ==
    /\ now = StartTime
    /\ cfg \in Configs
    /\ \E k \in Keys, sz \in 1 .. MaxSz :
          /\ kv = PendingLedger(k)
          /\ calls = [Calls0 EXCEPT !.place[k] = 1]
          /\ ordSz = [j \in Keys |-> IF j = k THEN sz ELSE 0]
          /\ hk \in [report : Reports(sz),
                     th : {[t \in Threads |-> [pc |-> "start", idem |-> NoKey]]}]
    /\ lastOp = NoOp
    /\ seq = 0
    /\ OldIdle
    /\ sg = Idle /\ cl = Idle /\ loop = Idle /\ pub = Idle

HkFrame == UNCHANGED <<now, cfg, ordSz, lastOp, seq, oldVars, sg, cl, loop, pub>>

At(t, pc) == hk.th[t].pc = pc

Goto(t, pc) == hk' = [hk EXCEPT !.th[t].pc = pc]

\* idem = self.store.get_kv("pending_current_idem")
HkReadCur(t) ==
    /\ At(t, "start")
    /\ hk' = [hk EXCEPT !.th[t] = IF kv.cur = NoKey
                                     THEN [pc |-> "end", idem |-> NoKey]
                                     ELSE [pc |-> "chk_done", idem |-> kv.cur]]
    /\ UNCHANGED <<kv, calls>> /\ HkFrame

\* self.store.get_kv(done:<idem>) == "1"
HkCheckDone(t) ==
    /\ At(t, "chk_done")
    /\ Goto(t, IF kv.done[hk.th[t].idem] THEN "del_cur" ELSE "read_cl")
    /\ UNCHANGED <<kv, calls>> /\ HkFrame

\* cl = self.store.get_kv(pending:<idem>:clOrdId)
HkReadCl(t) ==
    /\ At(t, "read_cl")
    /\ Goto(t, IF kv.pcl[hk.th[t].idem] = "" THEN "del_cur" ELSE "read_ts")
    /\ UNCHANGED <<kv, calls>> /\ HkFrame

\* ts = get_kv_float(pending:<idem>:ts) and the timeout test
HkReadTs(t) ==
    /\ At(t, "read_ts")
    /\ LET ts == kv.pts[hk.th[t].idem]
       IN  Goto(t, IF ts <= 0 \/ now - ts < OrderTimeoutSec THEN "end" ELSE "query")
    /\ UNCHANGED <<kv, calls>> /\ HkFrame

\* self.ex.get_order_anywhere(...)
HkQuery(t) ==
    /\ At(t, "query")
    /\ LET st == hk.report.state
       IN  Goto(t, IF st = "raise" \/ st = "canceled" THEN "set_done"
                   ELSE IF st = "filled" THEN "tpsl_check"
                   ELSE IF st = "partially_filled" THEN "cancel"
                   ELSE IF cfg.cancel_on_timeout THEN "cancel"
                   ELSE "end")
    /\ UNCHANGED <<kv, calls>> /\ HkFrame

\* self.ex.cancel_order(...), its failure swallowed
HkCancel(t) ==
    /\ At(t, "cancel")
    /\ Goto(t, IF hk.report.state = "partially_filled" THEN "tpsl_check" ELSE "end")
    /\ UNCHANGED <<kv, calls>> /\ HkFrame

\* _after_fill_set_tp_sl: the tp_sl_set test and the size and price tests
HkTpSlCheck(t) ==
    /\ At(t, "tpsl_check")
    /\ Goto(t, IF kv.tpsl[hk.th[t].idem] THEN "set_done"
               ELSE IF hk.report.acc <= 0 \/ hk.report.avgPx <= 0 THEN "set_done"
               ELSE "tpsl_call")
    /\ UNCHANGED <<kv, calls>> /\ HkFrame

\* self.ex.place_tp_sl_algo(...)
HkTpSlCall(t) ==
    /\ At(t, "tpsl_call")
    /\ calls' = Bump(calls, "tpsl", hk.th[t].idem)
    /\ \E ok \in BOOLEAN : Goto(t, IF ok THEN "tpsl_set" ELSE "set_done")
    /\ UNCHANGED kv /\ HkFrame

\* self.store.set_kv(tp_sl_set:<idem>, "1")
HkTpSlSet(t) ==
    /\ At(t, "tpsl_set")
    /\ kv' = [kv EXCEPT !.tpsl[hk.th[t].idem] = TRUE]
    /\ Goto(t, "set_done")
    /\ UNCHANGED calls /\ HkFrame

\* self.store.set_kv(done:<idem>, "1")
HkSetDone(t) ==
    /\ At(t, "set_done")
    /\ kv' = [kv EXCEPT !.done[hk.th[t].idem] = TRUE]
    /\ Goto(t, "del_cur")
    /\ UNCHANGED calls /\ HkFrame

\* _cleanup_pending, one delete at a time
HkDelCur(t) ==
    /\ At(t, "del_cur")
    /\ kv' = [kv EXCEPT !.cur = NoKey]
    /\ Goto(t, "del_pcl")
    /\ UNCHANGED calls /\ HkFrame

HkDelPcl(t) ==
    /\ At(t, "del_pcl")
    /\ kv' = [kv EXCEPT !.pcl[hk.th[t].idem] = ""]
    /\ Goto(t, "del_pts")
    /\ UNCHANGED calls /\ HkFrame

HkDelPts(t) ==
    /\ At(t, "del_pts")
    /\ kv' = [kv EXCEPT !.pts[hk.th[t].idem] = 0]
    /\ Goto(t, "end")
    /\ UNCHANGED calls /\ HkFrame

NextHkThreads ==
    \E t \in Threads :
        \/ HkReadCur(t)
        \/ HkCheckDone(t)
        \/ HkReadCl(t)
        \/ HkReadTs(t)
        \/ HkQuery(t)
        \/ HkCancel(t)
        \/ HkTpSlCheck(t)
        \/ HkTpSlCall(t)
        \/ HkTpSlSet(t)
        \/ HkSetDone(t)
        \/ HkDelCur(t)
        \/ HkDelPcl(t)
        \/ HkDelPts(t)

SpecHkThreads == InitHkThreads /\ [][NextHkThreads]_vars

\* C13: while the exchange reports filled, two housekeep invocations running
\* concurrently issue at most one TP/SL call for the pending key.
C13_ConcurrentTpSlOnce ==
    hk.report.state = "filled" => \A k \in Keys : calls.tpsl[k] <= 1

(***************************************************************************)
(* More properties of the order lifecycle (SpecOM).                        *)
(***************************************************************************)
\* the position of the first event e in the event list of an operation (0: none)
IndexOf(op, e) ==
    IF HasEvent(op, e) THEN CHOOSE i \in 1 .. Len(op.ev) :
                                /\ op.ev[i] = e
                                /\ \A j \in 1 .. i - 1 : op.ev[j] # e
    ELSE 0

NoPendingMarker(k) == kv.cur = NoKey /\ kv.pcl[k] = "" /\ kv.pts[k] = 0

\* C14: a housekeep call whose lookup (made only at or after the timeout)
\* reports filled or canceled, or raises, leaves the key done and the three
\* pending markers deleted, and the housekeep call that follows it finds
\* nothing pending and does nothing.
C14_TerminalCleanup ==
    /\ []((lastOp.op = "housekeep" /\ lastOp.rep \in {"filled", "canceled", "raise"})
          => (kv.done[lastOp.key] /\ NoPendingMarker(lastOp.key)))
    /\ [][ (/\ OpStep
            /\ lastOp.op = "housekeep"
            /\ lastOp.rep \in {"filled", "canceled", "raise"}
            /\ lastOp'.op = "housekeep")
           => (/\ lastOp'.branch = "no_pending"
               /\ lastOp'.ev = <<>>
               /\ kv' = kv
               /\ calls' = calls) ]_vars

\* C14 witness: the lookup raised at the timeout, the key is done and
\* cleaned up, and time has moved to the next tick.
C14_Witness ==
    /\ lastOp.op = "housekeep"
    /\ lastOp.rep = "raise"
    /\ calls.place[lastOp.key] = 1
    /\ kv.done[lastOp.key]
    /\ NoPendingMarker(lastOp.key)
    /\ now >= kv.trd + OrderTimeoutSec

\* C16: in an on_signal call that reaches the exchange, pending_current_idem,
\* pending:<key>:clOrdId and pending:<key>:ts are all written before the
\* placement call.
C16_MarkersBeforePlace ==
    (lastOp.op = "on_signal" /\ HasEvent(lastOp, "place"))
    => /\ 0 < IndexOf(lastOp, "set_cur")
       /\ 0 < IndexOf(lastOp, "set_pcl")
       /\ 0 < IndexOf(lastOp, "set_pts")
       /\ IndexOf(lastOp, "set_cur") < IndexOf(lastOp, "place")
       /\ IndexOf(lastOp, "set_pcl") < IndexOf(lastOp, "place")
       /\ IndexOf(lastOp, "set_pts") < IndexOf(lastOp, "place")

\* C16 witness: a submitted order whose markers are in the ledger.
C16_Witness ==
    /\ lastOp.op = "on_signal"
    /\ lastOp.branch = "submitted"
    /\ HasEvent(lastOp, "place")
    /\ kv.cur = lastOp.key
    /\ kv.pcl[lastOp.key] = make_cl_ord_id(lastOp.key)
    /\ kv.pts[lastOp.key] = now

\* C19: when the placement call raises, on_signal returns with the three
\* pending markers of the key deleted, last_reject_ts set to the current
\* time, the key done and last_trade_ts as it was.
C19_PlaceFailure ==
    [][ (OpStep /\ lastOp'.op = "on_signal" /\ HasEvent(lastOp', "place_err"))
        => (/\ lastOp'.branch = "place_failed"
            /\ kv'.cur = NoKey
            /\ kv'.pcl[lastOp'.key] = ""
            /\ kv'.pts[lastOp'.key] = 0
            /\ kv'.rej = now
            /\ kv'.done[lastOp'.key]
            /\ kv'.trd = kv.trd) ]_vars

\* C19 witness: a placement failed after an earlier order had been submitted.
C19_Witness ==
    /\ lastOp.op = "on_signal"
    /\ lastOp.branch = "place_failed"
    /\ kv.rej = now
    /\ kv.trd > 0
    /\ kv.trd < now
    /\ kv.done[lastOp.key]

\* C20: a signal turned away by the margin gate records last_reject_ts, marks
\* its key done, writes no pending marker and places no order; a later signal
\* with that key is ignored.
C20_MarginReject ==
    /\ [][ (OpStep /\ lastOp'.op = "on_signal" /\ lastOp'.branch = "margin_reject")
           => (/\ kv'.rej = now
               /\ kv'.done[lastOp'.key]
               /\ kv'.cur = kv.cur /\ kv'.pcl = kv.pcl /\ kv'.pts = kv.pts
               /\ kv'.trd = kv.trd
               /\ calls' = calls
               /\ ExchangeCalls(lastOp') = <<>>) ]_vars
    /\ [][ (/\ OpStep
            /\ lastOp'.op = "on_signal"
            /\ lastOp'.key # NoKey
            /\ kv.done[lastOp'.key]
            /\ calls.place[lastOp'.key] = 0)
           => (kv' = kv /\ calls' = calls /\ lastOp'.ev = <<>>) ]_vars

\* C20 witness: a key rejected by the margin gate got a second signal, which
\* was ignored.
C20_Witness ==
    /\ lastOp.op = "on_signal"
    /\ lastOp.branch = "done"
    /\ kv.done[lastOp.key]
    /\ calls.place[lastOp.key] = 0
    /\ kv.rej > 0

(***************************************************************************)
(* The control loop of main.  `loop` holds the position in the tick, the   *)
(* tick number, the time of the last portfolio refresh, whether a bar and  *)
(* a signal are at hand, and for each step of the current tick how it      *)
(* went: "-" (not reached yet), "ok", "raise" (it raised) or "skip" (the   *)
(* loop went past it).  housekeep and on_signal act on the ledger as in    *)
(* SpecOM; the content of the signal is drawn when on_signal is called.    *)
(* The clock advances while the loop sleeps.                               *)
(***************************************************************************)
PfRefreshSec == 2             \* trade.portfolio_refresh_sec
LoopSleepSec == 1             \* trade.loop_sleep_sec

Steps == {"refresh", "housekeep", "fetch", "gen", "signal"}

NoSteps == [x \in Steps |-> "-"]

Loop0 ==
    [pc |-> "refresh", tick |-> 1, lastPf |-> 0, bar |-> FALSE, sig |-> FALSE,
     st |-> NoSteps, alive |-> TRUE]

InitLoop ==
    /\ now = StartTime
    /\ cfg \in Configs
    /\ kv = KV0
    /\ calls = Calls0
    /\ ordSz = [k \in Keys |-> 0]
    /\ lastOp = NoOp
    /\ seq = 0
    /\ OldIdle
    /\ loop = Loop0
    /\ sg = Idle /\ cl = Idle /\ hk = Idle /\ pub = Idle

LoopOthers == UNCHANGED <<cfg, oldVars, sg, cl, hk, pub>>

\* a mutant: the try block around om.housekeep() is missing
CaughtButHousekeep(step) == step # "housekeep"

\* every step sits in its own try / except Exception
Caught(step) == step \in Steps

\* the loop after `step` went as `how`: on to `next`, or out of the while
\* loop when an exception is not caught
After(l, step, how, next) ==
    IF how = "raise" /\ ~Caught(step)
    THEN [l EXCEPT !.st[step] = how, !.pc = "dead", !.alive = FALSE]
    ELSE [l EXCEPT !.st[step] = how, !.pc = next]

\* 1) portfolio.refresh(), throttled
LoopRefresh ==
    /\ loop.pc = "refresh"
    /\ IF now - loop.lastPf >= PfRefreshSec
       THEN \E how \in {"ok", "raise"} :
               loop' = [After(loop, "refresh", how, "housekeep") EXCEPT !.lastPf = now]
       ELSE loop' = After(loop, "refresh", "skip", "housekeep")
    /\ UNCHANGED <<now, kv, calls, ordSz, lastOp, seq>> /\ LoopOthers

\* 2) om.housekeep()
LoopHousekeep ==
    /\ loop.pc = "housekeep"
    /\ \/ /\ loop' = After(loop, "housekeep", "raise", "fetch")
          /\ UNCHANGED <<kv, calls, lastOp, seq>>
       \/ \E rep \in Reports(IF kv.cur = NoKey THEN 0 ELSE ordSz[kv.cur]),
             cancelOk \in BOOLEAN, tpslOk \in BOOLEAN :
             LET in == [rep |-> rep, cancelOk |-> cancelOk, tpslOk |-> tpslOk]
                 r == Housekeep(kv, calls, now, cfg, in)
                 asked == Len(r.ev) > 0 /\ r.ev[1] = "query"
             IN  /\ kv' = r.kv
                 /\ calls' = r.calls
                 /\ lastOp' = [op |-> "housekeep", key |-> kv.cur, branch |-> r.branch,
                               ev |-> r.ev,
                               rep |-> IF asked THEN rep.state ELSE "",
                               acc |-> IF asked THEN rep.acc ELSE 0,
                               tpslSz |-> r.tpslSz]
                 /\ seq' = 1 - seq
                 /\ loop' = After(loop, "housekeep", "ok", "fetch")
    /\ UNCHANGED <<now, ordSz>> /\ LoopOthers

\* 3) get_latest_bar_and_ema: a bar, no bar, or an exception
LoopFetchBar ==
    /\ loop.pc = "fetch"
    /\ \/ \E bar \in BOOLEAN :
             loop' = [After(loop, "fetch", "ok", IF bar THEN "gen" ELSE "warn")
                         EXCEPT !.bar = bar,
                                !.st["gen"] = IF bar THEN "-" ELSE "skip",
                                !.st["signal"] = IF bar THEN "-" ELSE "skip"]
       \/ LET l == After(loop, "fetch", "raise", "warn")
          IN  loop' = IF l.alive
                      THEN [l EXCEPT !.bar = FALSE, !.st["gen"] = "skip",
                                     !.st["signal"] = "skip"]
                      ELSE l
    /\ UNCHANGED <<now, kv, calls, ordSz, lastOp, seq>> /\ LoopOthers

\* 4) generate_signal_from_ema: a signal, none, or an exception
LoopGenSignal ==
    /\ loop.pc = "gen"
    /\ \/ \E sig \in BOOLEAN :
             loop' = [After(loop, "gen", "ok", IF sig THEN "signal" ELSE "warn")
                         EXCEPT !.sig = sig,
                                !.st["signal"] = IF sig THEN "-" ELSE "skip"]
       \/ LET l == After(loop, "gen", "raise", "warn")
          IN  loop' = IF l.alive THEN [l EXCEPT !.sig = FALSE, !.st["signal"] = "skip"]
                      ELSE l
    /\ UNCHANGED <<now, kv, calls, ordSz, lastOp, seq>> /\ LoopOthers

\* 5) om.on_signal(sig, ...)
LoopOnSignal ==
    /\ loop.pc = "signal"
    /\ \/ /\ loop' = After(loop, "signal", "raise", "warn")
          /\ UNCHANGED <<kv, calls, ordSz, lastOp, seq>>
       \/ \E in \in SignalInputs :
             LET r == OnSignal(kv, calls, ordSz, now, cfg, in)
             IN  /\ kv' = r.kv
                 /\ calls' = r.calls
                 /\ ordSz' = r.ordSz
                 /\ lastOp' = [op |-> "on_signal", key |-> in.idem, branch |-> r.branch,
                               ev |-> r.ev, rep |-> "", acc |-> 0, tpslSz |-> 0]
                 /\ seq' = 1 - seq
                 /\ loop' = After(loop, "signal", "ok", "warn")
    /\ UNCHANGED now /\ LoopOthers

\* 6) the private-stream warning, in a try block of its own
LoopWarn ==
    /\ loop.pc = "warn"
    /\ loop' = [loop EXCEPT !.pc = "sleep"]
    /\ UNCHANGED <<now, kv, calls, ordSz, lastOp, seq>> /\ LoopOthers

\* time.sleep(loop_sleep), then the next tick
LoopSleep ==
    /\ loop.pc = "sleep"
    /\ now + LoopSleepSec <= MaxTime
    /\ now' = now + LoopSleepSec
    /\ loop' = [loop EXCEPT !.pc = "refresh", !.tick = @ + 1, !.st = NoSteps,
                            !.bar = FALSE, !.sig = FALSE]
    /\ UNCHANGED <<kv, calls, ordSz, lastOp, seq>> /\ LoopOthers

NextLoop ==
    \/ LoopRefresh
    \/ LoopHousekeep
    \/ LoopFetchBar
    \/ LoopGenSignal
    \/ LoopOnSignal
    \/ LoopWarn
    \/ LoopSleep

SpecLoop == InitLoop /\ [][NextLoop]_vars

\* the keys whose order is pending and has reached its timeout
TimedOutPending == {k \in Keys : kv.pcl[k] # "" /\ now - kv.pts[k] >= OrderTimeoutSec}

\* C15: in every tick housekeep has run before on_signal is called, and
\* whenever on_signal submits a new order no earlier order that has reached
\* its timeout is still pending.
C15_ResolvedBeforeAdmission ==
    /\ [](loop.pc = "signal" => loop.st["housekeep"] \in {"ok", "raise"})
    /\ [][ (lastOp'.op = "on_signal" /\ lastOp'.branch = "submitted" /\ seq' # seq)
           => TimedOutPending = {} ]_vars

\* the step that follows a step in the straight-line order of the tick
NextStep(x) ==
    IF x = "refresh" THEN "housekeep"
    ELSE IF x = "housekeep" THEN "fetch"
    ELSE IF x = "fetch" THEN "gen"
    ELSE "signal"

TickOver == loop.pc \in {"warn", "sleep"}

\* C18 as claimed: an exception in a step never ends the loop, and the step
\* after the one that raised is still attempted in that tick.
C18_RemainingStepsAttempted ==
    /\ loop.alive
    /\ TickOver =>
          \A x \in Steps \ {"signal"} :
              loop.st[x] = "raise" => loop.st[NextStep(x)] \in {"ok", "raise"}

\* C18: an exception in a step never ends the loop.  In every tick housekeep
\* and the bar fetch are attempted whatever the steps before them did; when
\* the bar fetch raises, signal generation and on_signal are skipped; when
\* signal generation raises, on_signal is skipped; and from the sleep the
\* loop goes on to the next tick.
C18_LoopSurvives ==
    /\ [](loop.alive /\ loop.pc # "dead")
    /\ [](TickOver =>
            /\ loop.st["housekeep"] \in {"ok", "raise"}
            /\ loop.st["fetch"] \in {"ok", "raise"}
            /\ loop.st["fetch"] = "raise"
               => (loop.st["gen"] = "skip" /\ loop.st["signal"] = "skip")
            /\ (loop.st["fetch"] = "ok" /\ loop.bar) => loop.st["gen"] \in {"ok", "raise"}
            /\ loop.st["gen"] = "raise" => loop.st["signal"] = "skip"
            /\ (loop.st["gen"] = "ok" /\ loop.sig) => loop.st["signal"] \in {"ok", "raise"})
    /\ [][ loop.pc = "sleep" /\ loop'.pc # "sleep"
           => loop'.pc = "refresh" /\ loop'.tick = loop.tick + 1 ]_vars

\* C18 witness: in the second tick or later the portfolio refresh, housekeep
\* and on_signal all raised, and the loop is at its sleep.
C18_Witness ==
    /\ loop.tick >= 2
    /\ loop.pc = "sleep"
    /\ loop.st["refresh"] = "raise"
    /\ loop.st["housekeep"] = "raise"
    /\ loop.st["signal"] = "raise"

(***************************************************************************)
(* OKXPublicWS.  `pub` holds the stop and connected flags and the position *)
(* of the stream's thread: "dead" (not started, or returned), "top" (at    *)
(* the while test of _run_loop), "connecting" (run_forever is dialling),   *)
(* "open" (run_forever is dispatching callbacks), "after" (run_forever has *)
(* returned or raised) and "sleep".  `attempts` counts the connections     *)
(* tried, `cause` tells how the last one ended and `slept` how long the    *)
(* last sleep was.  main calls start() once and stop() on its way out.     *)
(***************************************************************************)
ReconnectDelay == 3           \* reconnect_delay: int = 3

Pub0 ==
    [pc |-> "dead", started |-> FALSE, stop |-> FALSE, connected |-> FALSE,
     attempts |-> 0, cause |-> "", slept |-> 0]

InitPub ==
    /\ OMIdle
    /\ OldIdle
    /\ pub = Pub0
    /\ sg = Idle /\ cl = Idle /\ hk = Idle /\ loop = Idle

PubOthers == UNCHANGED <<omVars, oldVars, sg, cl, hk, loop>>

\* a mutant of the sleep: the delay grows with the number of attempts
SleepDelayBackoff(delay, attempts) == delay * attempts

\* time.sleep(self.reconnect_delay)
SleepDelay(delay, attempts) == delay

PubStart ==
    /\ ~pub.started
    /\ pub' = [pub EXCEPT !.started = TRUE, !.stop = FALSE, !.pc = "top"]
    /\ PubOthers

PubStop ==
    /\ pub.started
    /\ ~pub.stop
    /\ pub' = [pub EXCEPT !.stop = TRUE]
    /\ PubOthers

\* while not self._stop.is_set(): self._connected.clear(); WebSocketApp(...)
PubLoopTop ==
    /\ pub.pc = "top"
    /\ pub' = IF pub.stop THEN [pub EXCEPT !.pc = "dead"]
              ELSE IF pub.attempts < MaxAttempts
              THEN [pub EXCEPT !.pc = "connecting", !.connected = FALSE,
                               !.attempts = @ + 1]
              ELSE pub
    /\ PubOthers

\* the connection is not established: _on_error, then run_forever returns
PubConnectFail ==
    /\ pub.pc = "connecting"
    /\ pub' = [pub EXCEPT !.pc = "after", !.connected = FALSE, !.cause = "refused"]
    /\ PubOthers

\* _on_open
PubOnOpen ==
    /\ pub.pc = "connecting"
    /\ pub' = [pub EXCEPT !.pc = "open", !.connected = TRUE]
    /\ PubOthers

\* _on_error on an open connection, then run_forever returns
PubOnError ==
    /\ pub.pc = "open"
    /\ pub' = [pub EXCEPT !.pc = "after", !.connected = FALSE, !.cause = "error"]
    /\ PubOthers

\* _on_close, then run_forever returns
PubOnClose ==
    /\ pub.pc = "open"
    /\ pub' = [pub EXCEPT !.pc = "after", !.connected = FALSE, !.cause = "closed"]
    /\ PubOthers

\* an exception leaves the try block of _run_loop; no callback has run
PubException ==
    /\ pub.pc \in {"connecting", "open"}
    /\ pub' = [pub EXCEPT !.pc = "after", !.cause = "exception"]
    /\ PubOthers

\* if not self._stop.is_set(): time.sleep(self.reconnect_delay)
PubLoopAfter ==
    /\ pub.pc = "after"
    /\ pub' = IF pub.stop THEN [pub EXCEPT !.pc = "top"]
              ELSE [pub EXCEPT !.pc = "sleep",
                               !.slept = SleepDelay(ReconnectDelay, pub.attempts)]
    /\ PubOthers

PubSleepDone ==
    /\ pub.pc = "sleep"
    /\ pub' = [pub EXCEPT !.pc = "top"]
    /\ PubOthers

PubThread == PubLoopTop \/ PubLoopAfter \/ PubSleepDone

NextPub ==
    \/ PubStart
    \/ PubStop
    \/ PubLoopTop
    \/ PubConnectFail
    \/ PubOnOpen
    \/ PubOnError
    \/ PubOnClose
    \/ PubException
    \/ PubLoopAfter
    \/ PubSleepDone

SpecPub == InitPub /\ [][NextPub]_vars

\* the thread is scheduled and its sleep returns
FairSpecPub == SpecPub /\ WF_vars(PubThread)

\* C17: after a connection ended by a close, an error or an exception, and
\* with stop() not called, the thread sleeps the fixed reconnect delay and
\* then makes a new attempt with the connected flag cleared; it leaves its
\* loop only after stop(), and every sleep lasts the same delay.
C17_ReconnectForever ==
    /\ [](pub.pc = "connecting" => ~pub.connected)
    /\ [](pub.slept \in {0, ReconnectDelay})
    /\ [][ (pub.pc = "after" /\ ~pub.stop /\ pub'.pc # pub.pc)
           => (pub'.pc = "sleep" /\ pub'.slept = ReconnectDelay) ]_vars
    /\ [][ (pub.pc = "sleep" /\ pub'.pc # pub.pc) => pub'.pc = "top" ]_vars
    /\ [][ (pub.pc = "top" /\ ~pub.stop /\ pub'.pc # pub.pc)
           => (pub'.pc = "connecting" /\ pub'.attempts = pub.attempts + 1) ]_vars
    /\ [][ (pub.pc # "dead" /\ pub'.pc = "dead") => pub.stop ]_vars
    /\ (pub.pc = "after" /\ pub.attempts < MaxAttempts)
          ~> (pub.pc = "connecting" \/ pub.stop)

\* C17 witness: the second connection ended in an exception, the thread
\* slept the reconnect delay and is dialling a third time with the flag
\* cleared.
C17_Witness ==
    /\ pub.pc = "connecting"
    /\ pub.attempts = 3
    /\ pub.cause = "exception"
    /\ ~pub.connected
    /\ ~pub.stop
    /\ pub.slept = ReconnectDelay

(***************************************************************************)
(* OKXPublicWS._on_message.  A message is its text: the heartbeat reply    *)
(* "pong", text that is not JSON, or the text of a JSON object, given here *)
(* by what json.loads returns for it: whether it is a dict, its "event",   *)
(* whether it has a "data" key, and the rows of "data".  `fails` is the    *)
(* set of row positions at which the on_candle callback raises.  `pub`     *)
(* holds the number of messages handled, the callback invocations of the   *)
(* last message, and whether an earlier message had a callback raise.      *)
(***************************************************************************)
MaxRows == 3                  \* rows of one data message
MaxMsgs == 3                  \* messages received

RowValues == {"ra", "rb"}

RowSeqs == UNION {[1 .. n -> RowValues] : n \in 0 .. MaxRows}

\* obj.get("event"): absent or empty, "subscribe", "error", another one
EventValues == {"", "subscribe", "error", "channel-conn-count"}

Messages ==
    {[text |-> "pong"], [text |-> "not json"]}
    \cup {[text |-> "json", isDict |-> d, event |-> ev, hasData |-> h, data |-> rows] :
             d \in BOOLEAN, ev \in EventValues, h \in BOOLEAN, rows \in RowSeqs}

\* a JSON value that is not a dict has no keys; without "data" there are no rows
MsgWellFormed(m) ==
    m.text = "json" =>
        /\ ~m.isDict => m.event = "" /\ ~m.hasData
        /\ ~m.hasData => m.data = <<>>

Handled0 == [invoked |-> <<>>, warned |-> 0, escaped |-> FALSE]

\* a mutant of the row loop: the call of on_candle is not inside try/except
RECURSIVE ForRowsUnguarded(_, _, _, _)
ForRowsUnguarded(rows, fails, i, acc) ==
    IF i > Len(rows) THEN acc
    ELSE LET called == [acc EXCEPT !.invoked = Append(@, rows[i])]
         IN  IF i \in fails THEN [called EXCEPT !.escaped = TRUE]
             ELSE ForRowsUnguarded(rows, fails, i + 1, called)

\* for row in data: try: self.on_candle(row) except Exception: log.warning(...)
RECURSIVE ForRows(_, _, _, _)
ForRows(rows, fails, i, acc) ==
    IF i > Len(rows) THEN acc
    ELSE LET called == [acc EXCEPT !.invoked = Append(@, rows[i])]
         IN  ForRows(rows, fails, i + 1,
                     IF i \in fails THEN [called EXCEPT !.warned = @ + 1]
                     ELSE called)

\* _on_message
OnMessage(m, fails) ==
    IF m.text = "pong" THEN Handled0
    ELSE IF m.text # "json" THEN Handled0
    ELSE IF m.isDict /\ m.event # "" THEN Handled0
    ELSE IF m.isDict /\ m.hasData THEN ForRows(m.data, fails, 1, Handled0)
    ELSE Handled0

Msg0 ==
    [n |-> 0, msg |-> [text |-> "pong"], fails |-> {}, res |-> Handled0,
     earlierFailed |-> FALSE]

InitMsg ==
    /\ OMIdle /\ OldIdle
    /\ sg = Idle /\ cl = Idle /\ hk = Idle /\ loop = Idle
    /\ pub = Msg0

\* one message delivered by the connection to _on_message
PubOnMessage ==
    /\ pub.n < MaxMsgs
    /\ \E m \in Messages, fails \in SUBSET (1 .. MaxRows) :
          /\ MsgWellFormed(m)
          /\ fails \subseteq (IF m.text = "json" THEN DOMAIN m.data ELSE {})
          /\ pub' = [n |-> pub.n + 1, msg |-> m, fails |-> fails,
                     res |-> OnMessage(m, fails),
                     earlierFailed |-> pub.earlierFailed \/ pub.res.warned > 0
                                       \/ pub.res.escaped]
    /\ PubOthers

NextMsg == PubOnMessage

SpecMsg == InitMsg /\ [][NextMsg]_vars

\* a data message: a JSON dict with a "data" key and no event
IsDataMessage(m) == m.text = "json" /\ m.isDict /\ m.event = "" /\ m.hasData

\* C32: a data message has the callback invoked once per row, in order,
\* whichever rows the callback raises on and whether or not the callback
\* raised in an earlier message; no exception leaves the handler; a "pong"
\* and a message with an event never invoke the callback.
C32_CallbackPerRow ==
    /\ IsDataMessage(pub.msg) =>
          /\ pub.res.invoked = pub.msg.data
          /\ pub.res.warned = Cardinality(pub.fails)
    /\ ~pub.res.escaped
    /\ pub.msg.text = "pong" => pub.res.invoked = <<>>
    /\ pub.msg.text = "json" /\ pub.msg.event # "" => pub.res.invoked = <<>>

\* C32 witness: after a message in which the callback raised, a data message
\* of three rows whose first row makes the callback raise has had the
\* callback invoked on all three rows.
C32_Witness ==
    /\ pub.earlierFailed
    /\ IsDataMessage(pub.msg)
    /\ Len(pub.msg.data) = 3
    /\ 1 \in pub.fails
    /\ pub.res.invoked = pub.msg.data

(***************************************************************************)
(* Frame properties of the order manager.                                  *)
(***************************************************************************)
\* the branches of on_signal that return at one of the admission gates 1-6
GateBranches ==
    {"done", "pending", "reject_cooldown", "trade_cooldown", "pos_conflict",
     "size_failed", "zero_size"}

\* how many times event e occurs in the last call
CountOf(op, e) == Cardinality({i \in 1 .. Len(op.ev) : op.ev[i] = e})

\* C21: a signal turned away at one of the admission gates 1-6 leaves the
\* whole ledger as it was and issues no exchange call.
C21_GateRejectNoEffect ==
    [][ (OpStep /\ lastOp'.op = "on_signal" /\ lastOp'.branch \in GateBranches)
        => (kv' = kv /\ calls' = calls /\ ordSz' = ordSz /\ lastOp'.ev = <<>>) ]_vars

\* C21 witness: a signal was turned away by the position gate while another
\* key's order is pending in the ledger.
C21_Witness ==
    /\ lastOp.op = "on_signal"
    /\ lastOp.branch = "pos_conflict"
    /\ kv.cur # NoKey
    /\ kv.cur # lastOp.key
    /\ kv.pcl[kv.cur] # ""

\* C22: when housekeep queried at or after the timeout and the exchange
\* answered live, the call issued at most one cancel, and only when
\* cancel_on_timeout is set; the done markers, the pending markers, the
\* tp_sl_set flags and every other ledger entry are as before, also when the
\* cancel failed, and no TP/SL call is made.
C22_LiveLeavesLedger ==
    [][ (OpStep /\ lastOp'.op = "housekeep" /\ lastOp'.rep = "live")
        => /\ kv' = kv
           /\ calls' = calls
           /\ CountOf(lastOp', "cancel") <= 1
           /\ (CountOf(lastOp', "cancel") = 1 <=> cfg.cancel_on_timeout)
           /\ now - kv.pts[kv.cur] >= OrderTimeoutSec ]_vars

\* C22 witness: the order was reported live at the timeout and the cancel
\* failed; the key is still pending.
C22_Witness ==
    /\ lastOp.op = "housekeep"
    /\ lastOp.rep = "live"
    /\ HasEvent(lastOp, "cancel_err")
    /\ kv.cur = lastOp.key
    /\ kv.pcl[kv.cur] # ""
    /\ ~kv.done[kv.cur]

(***************************************************************************)
(* Progress of the order manager.  The control loop keeps calling          *)
(* housekeep, the clock moves on, and a housekeep call that looks an order *)
(* up eventually gets an answer other than live.  The clock of the model   *)
(* stops at MaxTime, so only an order that reaches its timeout by then is  *)
(* ever looked up.                                                         *)
(***************************************************************************)
\* a housekeep call whose lookup answers filled, canceled, partially_filled
\* or fails
HousekeepResolves == DoHousekeep /\ lastOp'.rep \notin {"", "live"}

FairSpecOM ==
    SpecOM /\ WF_vars(Tick) /\ WF_vars(DoHousekeep) /\ WF_vars(HousekeepResolves)

\* the key's order has a pending marker and reaches its timeout on the clock
TimesOut(k) == kv.pcl[k] # "" /\ kv.pts[k] + OrderTimeoutSec <= MaxTime

\* C23: under the fair schedule, every key that was given a pending marker
\* is eventually marked done and its pending markers are eventually removed.
C23_EventuallyResolved ==
    \A k \in Keys : TimesOut(k) ~> (kv.done[k] /\ NoPendingMarker(k))

(***************************************************************************)
(* Bounds of the exhaustive lookup.                                        *)
(***************************************************************************)
\* the pages at which the loop of _search_history_paged stops before its
\* bound: the request fails, the page holds the row, the page is empty, or
\* its last row has no ordId
StopPages(ep) ==
    {i \in 1 .. max_pages :
        \/ PageAfter(ep, i - 1) \in {"error", "match", "empty"}
        \/ ep.nocur = i}

\* the number of requests of one paged search
RequestsOf(ep) ==
    IF StopPages(ep) = {} THEN max_pages
    ELSE CHOOSE i \in StopPages(ep) : \A j \in StopPages(ep) : i <= j

\* C26: the lookup ends after one live query, at most max_pages history
\* requests and at most max_pages archive requests; a paged search stops at
\* the first page that holds the row, is empty, or ends in a row without an
\* ordId (or whose request fails), and at the page bound otherwise.
C26_LookupBounded ==
    lk.out.res # "unset" =>
        /\ lk.out.visited[1] = "live"
        /\ IsPrefix(lk.out.visited, <<"live", "history", "archive">>)
        /\ lk.out.hreqs <= max_pages
        /\ lk.out.areqs <= max_pages
        /\ Len(lk.out.visited) >= 2 => lk.out.hreqs = RequestsOf(lk.hist)
        /\ Len(lk.out.visited) = 3 => lk.out.areqs = RequestsOf(lk.arch)
        /\ Len(lk.out.visited) < 2 => lk.out.hreqs = 0
        /\ Len(lk.out.visited) < 3 => lk.out.areqs = 0

\* C26 witness: the history search stopped at its second page, whose last
\* row has no ordId although more pages exist, and the archive search ran to
\* its page bound without a match.
C26_Witness ==
    /\ lk.out.res = "not found"
    /\ lk.hist.nocur = 2
    /\ lk.hist.n > 2
    /\ lk.out.hreqs = 2
    /\ lk.arch.n > max_pages
    /\ lk.out.areqs = max_pages

\* C25: the history and archive searches are made only when the live query
\* failed with business code 51603; any other failure of the live query is
\* raised to the caller with no history request sent.
C25_FallbackOnlyOn51603 ==
    lk.out.res # "unset" =>
        /\ Len(lk.out.visited) >= 2 => lk.live = "51603"
        /\ lk.live \in {"other", "other mentioning 51603"}
           => (lk.out.res = "raise" /\ lk.out.hreqs = 0 /\ lk.out.areqs = 0)

(***************************************************************************)
(* housekeep together with the lookup it calls: one order is pending and   *)
(* has reached its timeout, `lk` holds what the exchange's three endpoints *)
(* answer, and the row found, if any, carries one of the order states.     *)
(***************************************************************************)
HkPages == {0, 2, MaxHistPages}

HkLookupData ==
    [live : LiveAnswers,
     hist : {e \in HistoryData : WellFormed(e) /\ e.n \in HkPages /\ e.m \in HkPages},
     arch : {e \in ArchiveData : WellFormed(e) /\ e.n \in HkPages /\ e.m \in HkPages},
     out : {Lookup("unset", "", 0, <<>>, 0, 0)}]

InitHkLookup ==
    /\ now = StartTime
    /\ cfg \in Configs
    /\ \E k \in Keys :
          /\ kv = PendingLedger(k)
          /\ calls = [Calls0 EXCEPT !.place[k] = 1]
          /\ ordSz = [j \in Keys |-> IF j = k THEN MaxSz ELSE 0]
    /\ lastOp = NoOp
    /\ seq = 0
    /\ lk \in HkLookupData
    /\ mg = Idle /\ rq = Idle /\ fl = Idle /\ ws = Idle /\ XIdle

\* od = self.ex.get_order_anywhere(...) inside housekeep's try block: the
\* row found, or an exception
ReportOf(out, found) == IF out.res = "found" THEN found ELSE Report("raise", 0)

HousekeepWithLookup ==
    /\ lk.out.res = "unset"
    /\ \E found \in Reports(MaxSz) \ {Report("raise", 0)},
          cancelOk \in BOOLEAN, tpslOk \in BOOLEAN :
          LET out == GetOrderAnywhere(lk)
              in == [rep |-> ReportOf(out, found), cancelOk |-> cancelOk,
                     tpslOk |-> tpslOk]
              r == Housekeep(kv, calls, now, cfg, in)
          IN  /\ lk' = [lk EXCEPT !.out = out]
              /\ kv' = r.kv
              /\ calls' = r.calls
              /\ lastOp' = [op |-> "housekeep", key |-> kv.cur, branch |-> r.branch,
                            ev |-> r.ev, rep |-> in.rep.state, acc |-> in.rep.acc,
                            tpslSz |-> r.tpslSz]
              /\ seq' = 1 - seq
    /\ UNCHANGED <<now, cfg, ordSz, mg, rq, fl, ws, xVars>>

SpecHkLookup == InitHkLookup /\ [][HousekeepWithLookup]_vars

\* C24: housekeep marks the key done on a failed lookup only when the live
\* endpoint answered not-found (51603) and neither order history nor the
\* archive holds the client order id; a lookup that fails for another reason
\* leaves the key not done.
C24_DoneOnlyWhenNotFound ==
    (lastOp.op = "housekeep" /\ lastOp.branch = "query_failed")
    => /\ lk.live = "51603"
       /\ lk.out.res = "not found"
       /\ lk.hist.m = 0
       /\ lk.arch.m = 0

(***************************************************************************)
(* utils.retry.retry around a read operation of OKXRest, step by step.     *)
(* In this specification `cl` holds the wrapper's locals (_tries, _delay),  *)
(* how each run of the wrapped method ended, the sleeps made and how the   *)
(* call ended.  A run of the method is one _request: it returns, or raises *)
(* for a transport error, an HTTP status >= 400, a body that is not JSON,  *)
(* or a business code other than "0".  Durations are in tenths of a        *)
(* second.                                                                 *)
(***************************************************************************)
RetryDelay == 5               \* @retry(tries=3, delay=0.5)
RetryBackoff == 2             \* backoff: float = 2.0

RunOutcomes == {"ok", "transport", "http_status", "bad_json", "business"}

Retry0 ==
    [pc |-> "idle", op |-> "none", tries |-> 0, delay |-> 0, runs |-> <<>>,
     slept |-> <<>>, res |-> "", exc |-> "", n |-> 0]

InitRetry ==
    /\ OMIdle
    /\ OldIdle
    /\ cl = Retry0
    /\ sg = Idle /\ hk = Idle /\ loop = Idle /\ pub = Idle

\* a mutant of the backoff: the delay stays as it is
NextDelayFixed(delay) == delay

\* _delay *= backoff
NextDelay(delay) == delay * RetryBackoff

\* except exceptions as e, with exceptions = (Exception,)
Catches(kind) == kind # "ok"

\* wrapper(*args, **kwargs): _tries, _delay = tries, delay
RetryCall ==
    /\ cl.pc = "idle"
    /\ cl.n < MaxInvocations
    /\ \E op \in RetriedOps :
          cl' = [Retry0 EXCEPT !.pc = "try", !.op = op, !.tries = RetryTries,
                               !.delay = RetryDelay, !.n = cl.n + 1]
    /\ ClientOthers

\* return fn(*args, **kwargs), or the except branch
RetryRun ==
    /\ cl.pc = "try"
    /\ \E out \in RunOutcomes :
          LET c == [cl EXCEPT !.runs = Append(@, out)]
          IN  cl' = IF ~Catches(out)
                    THEN [c EXCEPT !.pc = "idle", !.res = "return"]
                    ELSE IF cl.tries - 1 <= 0
                    THEN [c EXCEPT !.pc = "idle", !.tries = @ - 1, !.res = "raise",
                                   !.exc = out]
                    ELSE [c EXCEPT !.pc = "sleep", !.tries = @ - 1]
    /\ ClientOthers

\* time.sleep(_delay); _delay *= backoff
RetrySleep ==
    /\ cl.pc = "sleep"
    /\ cl' = [cl EXCEPT !.pc = "try", !.slept = Append(@, cl.delay),
                        !.delay = NextDelay(cl.delay)]
    /\ ClientOthers

NextRetry == RetryCall \/ RetryRun \/ RetrySleep

SpecRetry == InitRetry /\ [][NextRetry]_vars

\* C27: a retried read runs the request at most RetryTries times; it returns
\* at the first run that succeeds and runs nothing after it; it sleeps 0.5
\* and then 1.0 between the runs; and after the third failure it raises the
\* error of that last run.
C27_RetryBounded ==
    /\ Len(cl.runs) <= RetryTries
    /\ \A i \in 1 .. Len(cl.runs) - 1 : cl.runs[i] # "ok"
    /\ IsPrefix(cl.slept, <<5, 10>>)
    /\ cl.pc = "try" => Len(cl.slept) = Len(cl.runs)
    /\ cl.pc = "sleep" => Len(cl.slept) = Len(cl.runs) - 1
    /\ cl.res = "return"
       => (cl.runs[Len(cl.runs)] = "ok" /\ Len(cl.slept) = Len(cl.runs) - 1)
    /\ cl.res = "raise"
       => /\ Len(cl.runs) = RetryTries
          /\ cl.exc = cl.runs[RetryTries]
          /\ cl.exc # "ok"
          /\ cl.slept = <<5, 10>>
    /\ (cl.pc = "idle" /\ cl.n > 0) => cl.res \in {"return", "raise"}

\* C27 witness: two runs failed, the wrapper slept 0.5 and 1.0, and the third
\* run failed with another error, which was raised.
C27_Witness ==
    /\ cl.res = "raise"
    /\ cl.runs = <<"transport", "http_status", "bad_json">>
    /\ cl.exc = "bad_json"
    /\ cl.slept = <<5, 10>>

\* C28: a run that reached the exchange and got a business code other than
\* success is never followed by another run of the same call.
C28_BusinessCodeNotResent ==
    \A i \in 1 .. Len(cl.runs) - 1 : cl.runs[i] # "business"

TransportEnded == ws.ended \in {"connect_failed", "dropped"}

\* the per-connection flags are reset and the counter is kept when the loop
\* starts a connection after a transport error
ResetOnReconnect ==
    [][ (ws.pc = "top" /\ ws'.pc = "connecting" /\ TransportEnded)
        => /\ ~ws'.connected /\ ~ws'.authed /\ ~ws'.subscribed
           /\ ws'.failures = ws.failures ]_vars

PlacedBranches == {"submitted", "place_failed"}

\* C35: with max_positions <= 1, in every reachable state no OPEN_LONG signal
\* that meets a positive short size, and no OPEN_SHORT signal that meets a
\* positive long size, reaches the placement call.
C35_NoOppositeSide ==
    \A in \in SignalInputs :
        LET r == OnSignal(kv, calls, ordSz, now, cfg, in)
        IN  (cfg.max_positions <= 1 /\ r.branch \in PlacedBranches)
            => /\ in.action = "OPEN_LONG" => in.pos[2] = 0
               /\ in.action = "OPEN_SHORT" => in.pos[1] = 0

\* C35 witness: the ledger would admit key k1 (not done, not pending, no
\* cooldown running) and a signal for it was turned away by the position gate.
C35_Witness ==
    /\ lastOp.op = "on_signal"
    /\ lastOp.branch = "pos_conflict"
    /\ lastOp.key = "k1"
    /\ ~kv.done["k1"]
    /\ kv.pcl["k1"] = ""
    /\ cfg.max_positions <= 1

\* C36: an on_signal call reaches the placement call only when the reject
\* cooldown has passed since last_reject_ts and, when the trade cooldown is
\* positive, the trade cooldown has passed since last_trade_ts; and these two
\* entries hold the time of the last rejection and of the last submission.
C36_Cooldowns ==
    /\ [][ (OpStep /\ lastOp'.op = "on_signal" /\ lastOp'.branch \in PlacedBranches)
           => /\ now - kv.rej >= RejectCooldownSec
              /\ cfg.cooldown_sec > 0 => now - kv.trd >= cfg.cooldown_sec ]_vars
    /\ [][ (OpStep /\ lastOp'.op = "on_signal"
                   /\ lastOp'.branch \in {"margin_reject", "place_failed"})
           => kv'.rej = now ]_vars
    /\ [][ (OpStep /\ lastOp'.op = "on_signal" /\ lastOp'.branch = "submitted")
           => kv'.trd = now ]_vars
    /\ [][ kv'.rej >= kv.rej /\ kv'.trd >= kv.trd ]_vars

\* C36 witness: an order was submitted after an earlier rejection and an
\* earlier submission, with both cooldowns passed.
C36_Witness ==
    /\ lastOp.op = "on_signal"
    /\ lastOp.branch = "submitted"
    /\ cfg.cooldown_sec > 0
    /\ kv.rej >= StartTime
    /\ kv.trd >= kv.rej + RejectCooldownSec
    /\ calls.place["k1"] + calls.place["k2"] >= 2

\* C39: no key has both a done marker and a pending client order id.
C39_DoneExcludesPending ==
    \A k \in Keys : ~(kv.done[k] /\ kv.pcl[k] # "")

\* C39 witness: one key was finalized by housekeep, done and without
\* pending markers, while another key is pending and not done.
C39_Witness ==
    \E k \in Keys, j \in Keys :
        /\ k # j
        /\ kv.done[k] /\ kv.pcl[k] = "" /\ calls.place[k] > 0
        /\ kv.pcl[j] # "" /\ ~kv.done[j]
        /\ lastOp.op = "housekeep" /\ lastOp.key = k

\* C40: a housekeep call that finalizes a key on state canceled issues no
\* TP/SL call and leaves every tp_sl_set flag as it was, whatever accFillSz
\* is reported; a TP/SL call is made only by a housekeep call whose lookup
\* reported filled or partially_filled.
C40_NoTpSlOnCanceled ==
    /\ [][ (OpStep /\ lastOp'.op = "housekeep" /\ lastOp'.rep = "canceled")
           => /\ ~HasEvent(lastOp', "tpsl")
              /\ calls'.tpsl = calls.tpsl
              /\ kv'.tpsl = kv.tpsl
              /\ kv'.done[lastOp'.key] ]_vars
    /\ [][ (calls'.tpsl # calls.tpsl \/ (OpStep /\ HasEvent(lastOp', "tpsl")))
           => (lastOp'.op = "housekeep"
               /\ lastOp'.rep \in {"filled", "partially_filled"}) ]_vars

\* C40 witness: the exchange reported canceled with a positive accFillSz;
\* the key is done, no TP/SL call was made and the flag is not set.
C40_Witness ==
    /\ lastOp.op = "housekeep"
    /\ lastOp.rep = "canceled"
    /\ lastOp.acc > 0
    /\ kv.done[lastOp.key]
    /\ ~kv.tpsl[lastOp.key]
    /\ calls.tpsl[lastOp.key] = 0

(***************************************************************************)
(* Crash and restart of the process.  A call of on_signal or housekeep is  *)
(* the list of its effects on the store and on the exchange, in program    *)
(* order (the `ev` of OnSignal and Housekeep, with _cleanup_pending spelled *)
(* out as its three deletes); the process may die after any prefix of that *)
(* list, and restarts with the ledger as the prefix left it.  OrderManager *)
(* keeps nothing else between calls.  `hk.recv[k]` counts the orders for   *)
(* key k that the exchange has received: a placement call that returns has *)
(* been received, one that raises may or may not have been.                *)
(***************************************************************************)
MaxRestarts == 1              \* cap of crashes

\* the signals of the crash specification: both keys, pass every gate
CrashSignals ==
    {Sig("OPEN_LONG", k, 1, 1, 4, <<0, 0>>, ok) : k \in Keys, ok \in BOOLEAN}

RECURSIVE Effects(_)
\* the effects of a call, one store access or exchange call each
Effects(ev) ==
    IF ev = <<>> THEN <<>>
    ELSE (IF Head(ev) = "cleanup" THEN <<"del_cur", "del_pcl", "del_pts">>
          ELSE <<Head(ev)>>) \o Effects(Tail(ev))

\* one effect on the ledger S.kv, the call counters and the exchange
Effect(S, e, idem, t, sz, received) ==
    IF e = "set_cur" THEN [S EXCEPT !.kv.cur = idem]
    ELSE IF e = "set_pcl" THEN [S EXCEPT !.kv.pcl[idem] = make_cl_ord_id(idem)]
    ELSE IF e = "set_pts" THEN [S EXCEPT !.kv.pts[idem] = t]
    ELSE IF e = "place"
         THEN [S EXCEPT !.calls = Bump(@, "place", idem), !.ordSz[idem] = sz,
                        !.recv[idem] = IF received THEN @ + 1 ELSE @]
    ELSE IF e = "set_rej" THEN [S EXCEPT !.kv.rej = t]
    ELSE IF e = "set_trd" THEN [S EXCEPT !.kv.trd = t]
    ELSE IF e = "set_done" THEN [S EXCEPT !.kv.done[idem] = TRUE]
    ELSE IF e = "del_cur" THEN [S EXCEPT !.kv.cur = NoKey]
    ELSE IF e = "del_pcl" THEN [S EXCEPT !.kv.pcl[idem] = ""]
    ELSE IF e = "del_pts" THEN [S EXCEPT !.kv.pts[idem] = 0]
    ELSE IF e = "tpsl" THEN [S EXCEPT !.calls = Bump(@, "tpsl", idem)]
    ELSE IF e = "set_tpsl" THEN [S EXCEPT !.kv.tpsl[idem] = TRUE]
    ELSE S

RECURSIVE RunPrefix(_, _, _, _, _, _, _)
\* the state after the first n effects of the list
RunPrefix(S, effs, n, idem, t, sz, received) ==
    IF n = 0 \/ effs = <<>> THEN S
    ELSE RunPrefix(Effect(S, Head(effs), idem, t, sz, received), Tail(effs), n - 1,
                   idem, t, sz, received)

Crash0 == [restarts |-> 0, recv |-> [k \in Keys |-> 0], crashed |-> FALSE]

InitCrash ==
    /\ now = StartTime
    /\ cfg \in Configs
    /\ kv = KV0
    /\ calls = Calls0
    /\ ordSz = [k \in Keys |-> 0]
    /\ lastOp = NoOp
    /\ seq = 0
    /\ hk = Crash0
    /\ OldIdle
    /\ sg = Idle /\ cl = Idle /\ loop = Idle /\ pub = Idle

CrashOthers == UNCHANGED <<now, cfg, oldVars, sg, cl, loop, pub>>

\* the call runs its first n effects; it is a crash when effects remain
RunCall(op, idem, branch, ev, n, sz, received, rep) ==
    LET effs == Effects(ev)
        S == RunPrefix([kv |-> kv, calls |-> calls, ordSz |-> ordSz, recv |-> hk.recv],
                       effs, n, idem, now, sz, received)
        crash == n < Len(effs)
    IN  /\ crash => hk.restarts < MaxRestarts
        /\ \A k \in Keys : S.calls.place[k] <= MaxCalls /\ S.calls.tpsl[k] <= MaxCalls
        /\ kv' = S.kv
        /\ calls' = S.calls
        /\ ordSz' = S.ordSz
        /\ hk' = [restarts |-> IF crash THEN hk.restarts + 1 ELSE hk.restarts,
                  recv |-> S.recv, crashed |-> crash]
        /\ lastOp' = [op |-> op, key |-> idem, branch |-> branch,
                      ev |-> SubSeq(effs, 1, n), rep |-> rep, acc |-> 0, tpslSz |-> 0]
        /\ seq' = 1 - seq
        /\ CrashOthers

CrashOnSignal ==
    \E in \in CrashSignals, received \in BOOLEAN :
        LET r == OnSignal(kv, calls, ordSz, now, cfg, in)
        IN  /\ in.placeOk => received
            /\ \E n \in 0 .. Len(Effects(r.ev)) :
                  RunCall("on_signal", in.idem, r.branch, r.ev, n, in.sz, received, "")

CrashHousekeep ==
    \E rep \in Reports(IF kv.cur = NoKey THEN 0 ELSE ordSz[kv.cur]),
       cancelOk \in BOOLEAN, tpslOk \in BOOLEAN :
        LET in == [rep |-> rep, cancelOk |-> cancelOk, tpslOk |-> tpslOk]
            r == Housekeep(kv, calls, now, cfg, in)
        IN  \E n \in 0 .. Len(Effects(r.ev)) :
               RunCall("housekeep", kv.cur, r.branch, r.ev, n, 0, FALSE,
                       IF r.ev # <<>> /\ r.ev[1] = "query" THEN rep.state ELSE "")

CrashTick == Tick

NextCrash == CrashTick \/ CrashOnSignal \/ CrashHousekeep

SpecCrash == InitCrash /\ [][NextCrash]_vars

\* a call that runs all its effects leaves the ledger and the counters as
\* OnSignal and Housekeep compute them
EffectsAgree ==
    /\ \A in \in CrashSignals :
          LET r == OnSignal(kv, calls, ordSz, now, cfg, in)
              effs == Effects(r.ev)
              S == RunPrefix([kv |-> kv, calls |-> calls, ordSz |-> ordSz,
                              recv |-> hk.recv], effs, Len(effs), in.idem, now,
                             in.sz, TRUE)
          IN  S.kv = r.kv /\ S.calls = r.calls /\ S.ordSz = r.ordSz
    /\ \A rep \in Reports(IF kv.cur = NoKey THEN 0 ELSE ordSz[kv.cur]),
          cancelOk \in BOOLEAN, tpslOk \in BOOLEAN :
          LET in == [rep |-> rep, cancelOk |-> cancelOk, tpslOk |-> tpslOk]
              r == Housekeep(kv, calls, now, cfg, in)
              effs == Effects(r.ev)
              S == RunPrefix([kv |-> kv, calls |-> calls, ordSz |-> ordSz,
                              recv |-> hk.recv], effs, Len(effs), kv.cur, now, 0, FALSE)
          IN  S.kv = r.kv /\ S.calls = r.calls

\* C37: across a crash and restart, every order the exchange has received
\* has a pending or a done marker for its key, and no key gets a second
\* placement call or a second TP/SL call.
C37_CrashSafe ==
    \A k \in Keys :
        /\ hk.recv[k] > 0 => (kv.pcl[k] # "" \/ kv.done[k])
        /\ calls.place[k] <= 1
        /\ calls.tpsl[k] <= 1

(***************************************************************************)
(* OKXRest.set_leverage.  Each request handed to _request is answered by   *)
(* the next of `outs`: accepted, rejected with a business code and a       *)
(* message, or failed in transport; without credentials _request raises    *)
(* before anything is sent.  str(e) of a rejection is                      *)
(* "OKX API error: code=<code> msg=<msg> resp=<resp>".  `sg` holds the     *)
(* inputs of the last call, the posSide of every request sent, in order,   *)
(* and whether the call raised.                                            *)
(***************************************************************************)
HedgeModes == {"long_short_mode", "long_short", "hedge", "longshortmode"}

\* values of self.pos_mode: unset, and what account/config reports
PosModeValues == {"", "net_mode", "long_short_mode", "Long_Short_Mode"}

\* (self.pos_mode or "").lower()
Lower(pm) == IF pm = "Long_Short_Mode" THEN "long_short_mode" ELSE pm

IsHedge(pm) == Lower(pm) \in HedgeModes

PosSideMsgs == {"Parameter posSide error", "posSide is required"}

Accepted == [kind |-> "ok", code |-> "0", msg |-> ""]

LevOutcomes ==
    {Accepted, [kind |-> "network", code |-> "", msg |-> "Read timed out"]}
    \cup {[kind |-> "rejected", code |-> c, msg |-> m] :
             c \in {"51000", "59000"},
             m \in PosSideMsgs \cup {"Parameter lever error"}}

MissingCredentials == [kind |-> "no_credentials", code |-> "", msg |-> ""]

Lev0 == [sent |-> <<>>, raised |-> FALSE, err |-> Accepted]

\* _call(payload) -> self._request("POST", ".../set-leverage", ...); a call
\* after one that raised is not reached
LevCall(acc, posSide, creds, outs) ==
    IF acc.raised THEN acc
    ELSE IF ~creds THEN [acc EXCEPT !.raised = TRUE, !.err = MissingCredentials]
    ELSE LET out == outs[Len(acc.sent) + 1]
         IN  [sent |-> Append(acc.sent, posSide),
              raised |-> out.kind # "ok",
              err |-> out]

\* r1 = _call({..., "posSide": "long"}); r2 = _call({..., "posSide": "short"})
HedgeCalls(acc, creds, outs) ==
    LevCall(LevCall(acc, "long", creds, outs), "short", creds, outs)

\* a mutant of the fallback test: every failure falls back
PosSideErrorAny(err) == TRUE

\* "51000" in msg and "posSide" in msg
PosSideError(err) == err.code = "51000" /\ err.msg \in PosSideMsgs

SetLeverage(pm, creds, outs) ==
    IF IsHedge(pm) THEN HedgeCalls(Lev0, creds, outs)
    ELSE LET first == LevCall(Lev0, "none", creds, outs)
         IN  IF ~first.raised THEN first
             ELSE IF PosSideError(first.err)
             THEN HedgeCalls([first EXCEPT !.raised = FALSE], creds, outs)
             ELSE first

InitLev ==
    /\ OMIdle /\ OldIdle
    /\ cl = Idle /\ hk = Idle /\ loop = Idle /\ pub = Idle
    /\ sg = [pm |-> "", creds |-> TRUE, outs |-> <<Accepted, Accepted, Accepted>>,
             res |-> Lev0, n |-> 0]

LevOthers == UNCHANGED <<omVars, oldVars, cl, hk, loop, pub>>

DoSetLeverage ==
    /\ sg.n < 1
    /\ \E pm \in PosModeValues, creds \in BOOLEAN, outs \in [1 .. 3 -> LevOutcomes] :
          sg' = [pm |-> pm, creds |-> creds, outs |-> outs,
                 res |-> SetLeverage(pm, creds, outs), n |-> sg.n + 1]
    /\ LevOthers

SpecLev == InitLev /\ [][DoSetLeverage]_vars

\* the first request was rejected with code 51000 and a message naming posSide
FirstIsPosSideError ==
    /\ sg.outs[1].kind = "rejected"
    /\ sg.outs[1].code = "51000"
    /\ sg.outs[1].msg \in PosSideMsgs

\* C33 as stated: in hedge mode exactly the two requests long, short are
\* sent; otherwise one request without posSide, followed by long and short
\* only after a 51000 rejection naming posSide, and by nothing after any
\* other failure, which is raised.
C33_ExactlyTwoInHedgeMode ==
    sg.n > 0 =>
        /\ IsHedge(sg.pm) => sg.res.sent = <<"long", "short">>
        /\ ~IsHedge(sg.pm) =>
              /\ Len(sg.res.sent) >= 1 /\ sg.res.sent[1] = "none"
              /\ Len(sg.res.sent) > 1 =>
                    FirstIsPosSideError /\ sg.res.sent = <<"none", "long", "short">>
              /\ sg.outs[1].kind # "ok" /\ ~FirstIsPosSideError =>
                    sg.res.raised /\ Len(sg.res.sent) = 1

\* C33 amended: with credentials configured, the requests sent are a
\* non-empty prefix of long, short in hedge mode, and otherwise the request
\* without posSide followed, only after a 51000 rejection naming posSide, by
\* a non-empty prefix of long, short; the sequence stops at the first
\* request that fails, whose failure is raised, and is complete when none
\* fails; without credentials nothing is sent and the call raises.
C33_SetLeverageRequests ==
    sg.n > 0 =>
      LET sent == sg.res.sent
          plan == IF IsHedge(sg.pm) THEN <<"long", "short">>
                  ELSE IF FirstIsPosSideError THEN <<"none", "long", "short">>
                  ELSE <<"none">>
          \* the failure of the request without posSide is absorbed by the fallback
          fatal(i) == sg.outs[i].kind # "ok"
                      /\ ~(i = 1 /\ ~IsHedge(sg.pm) /\ FirstIsPosSideError)
      IN  IF ~sg.creds THEN sent = <<>> /\ sg.res.raised
          ELSE /\ Len(sent) \in 1 .. Len(plan)
               /\ \A i \in DOMAIN sent : sent[i] = plan[i]
               /\ \A i \in 1 .. Len(sent) - 1 : ~fatal(i)
               /\ sg.res.raised <=> fatal(Len(sent))
               /\ ~sg.res.raised => sent = plan

\* C33 witness: not in hedge mode, the request without posSide was rejected
\* with 51000 naming posSide, and the long and short requests were sent and
\* accepted, three requests in all.
C33_Witness ==
    /\ sg.n > 0
    /\ ~IsHedge(sg.pm)
    /\ FirstIsPosSideError
    /\ sg.res.sent = <<"none", "long", "short">>
    /\ ~sg.res.raised

(***************************************************************************)
(* The instrument-spec cache of OKXRest.  `loop.cache` is _spec_cache, a   *)
(* dict from symbol to InstrumentSpec; `loop.call` records the last call:  *)
(* its inst_id argument, the requests it sent, whether it returned and     *)
(* what.  ctVal is the contract value the exchange reports at the time of  *)
(* the call; the other fields of the spec are fixed.                       *)
(***************************************************************************)
Symbols == {"BTC-USDT-SWAP", "ETH-USDT-SWAP"}

\* inst_id arguments: the symbols, and one with surrounding blanks
InstIdArgs == Symbols \cup {" BTC-USDT-SWAP "}

\* inst_id.strip()
Strip(inst) == IF inst = " BTC-USDT-SWAP " THEN "BTC-USDT-SWAP" ELSE inst

MaxCtVal == 2                 \* contract values reported: 1 .. MaxCtVal

NoSpec == [inst_id |-> "", ct_val |-> 0, lot_sz |-> 0, min_sz |-> 0, tick_sz |-> 0]

\* InstrumentSpec(inst_id=..., ct_val=float(d0.get("ctVal") or 0.0), ...)
InstrumentSpec(inst, ctVal) ==
    [inst_id |-> inst, ct_val |-> ctVal, lot_sz |-> 1, min_sz |-> 1, tick_sz |-> 1]

\* get_instrument_spec under its retry decorator
get_instrument_spec(inst, outcomes, ctVal) ==
    LET r == Retry("get_instrument_spec", outcomes)
    IN  [sent |-> r.sent, ok |-> r.ok,
         ret |-> IF r.ok THEN InstrumentSpec(inst, ctVal) ELSE NoSpec]

\* a mutant of _must_spec: it fetches and stores whether or not the symbol
\* is cached
must_spec_refetch(cache, inst, outcomes, ctVal) ==
    LET key == Strip(inst)
        r == get_instrument_spec(key, outcomes, ctVal)
    IN  [sent |-> r.sent, ok |-> r.ok, ret |-> r.ret,
         cache |-> IF r.ok THEN [cache EXCEPT ![key] = r.ret] ELSE cache]

\* _must_spec
must_spec(cache, inst, outcomes, ctVal) ==
    LET key == Strip(inst)
    IN  IF cache[key] # NoSpec
        THEN [sent |-> 0, ok |-> TRUE, ret |-> cache[key], cache |-> cache]
        ELSE LET r == get_instrument_spec(key, outcomes, ctVal)
             IN  [sent |-> r.sent, ok |-> r.ok, ret |-> r.ret,
                  cache |-> IF r.ok THEN [cache EXCEPT ![key] = r.ret] ELSE cache]

SpecCall(c, op, inst, res) ==
    [cache |-> res.cache,
     call |-> [op |-> op, inst |-> inst, sent |-> res.sent, ok |-> res.ok,
               ret |-> res.ret],
     n |-> c.n + 1]

InitCache ==
    /\ OMIdle /\ OldIdle
    /\ sg = Idle /\ cl = Idle /\ hk = Idle /\ pub = Idle
    /\ loop = [cache |-> [s \in Symbols |-> NoSpec],
               call |-> [op |-> "none", inst |-> "", sent |-> 0, ok |-> TRUE,
                         ret |-> NoSpec],
               n |-> 0]

CacheOthers == UNCHANGED <<omVars, oldVars, sg, cl, hk, pub>>

\* bootstrap, round_to_tick, calc_size_by_risk and the order manager's margin
\* check each call self._must_spec(inst_id)
CallMustSpec ==
    /\ loop.n < MaxInvocations
    /\ \E inst \in InstIdArgs, o \in Outcomes, ctVal \in 1 .. MaxCtVal :
          loop' = SpecCall(loop, "_must_spec", inst,
                           must_spec(loop.cache, inst, o, ctVal))
    /\ CacheOthers

\* get_instrument_spec called directly: it does not touch the cache
CallGetInstrumentSpec ==
    /\ loop.n < MaxInvocations
    /\ \E inst \in Symbols, o \in Outcomes, ctVal \in 1 .. MaxCtVal :
          LET r == get_instrument_spec(inst, o, ctVal)
          IN  loop' = SpecCall(loop, "get_instrument_spec", inst,
                               [sent |-> r.sent, ok |-> r.ok, ret |-> r.ret,
                                cache |-> loop.cache])
    /\ CacheOthers

NextCache ==
    \/ CallMustSpec
    \/ CallGetInstrumentSpec

SpecCache == InitCache /\ [][NextCache]_vars

\* C38: a cached spec is never replaced or removed; a _must_spec call for a
\* cached symbol sends no request and returns the cached value; a call whose
\* fetch fails leaves the cache as it was; a successful fetch by _must_spec
\* caches what it returns.
C38_SpecCachedOnce ==
    [][loop'.n # loop.n =>
        /\ \A s \in Symbols :
              loop.cache[s] # NoSpec => loop'.cache[s] = loop.cache[s]
        /\ loop'.call.op = "_must_spec" =>
              LET key == Strip(loop'.call.inst)
              IN  /\ loop.cache[key] # NoSpec =>
                        /\ loop'.call.sent = 0
                        /\ loop'.call.ok
                        /\ loop'.call.ret = loop.cache[key]
                  /\ loop.cache[key] = NoSpec /\ loop'.call.ok =>
                        /\ loop'.call.sent \in 1 .. RetryTries
                        /\ loop'.cache[key] = loop'.call.ret
        /\ ~loop'.call.ok => loop'.cache = loop.cache]_vars

\* C38 witness: at least two calls after the start, a _must_spec call whose
\* argument has surrounding blanks returned the spec cached for the symbol,
\* with contract value 1, without a request; the other symbol is not cached.
C38_Witness ==
    /\ loop.n >= 3
    /\ loop.call.op = "_must_spec"
    /\ loop.call.inst = " BTC-USDT-SWAP "
    /\ loop.call.sent = 0
    /\ loop.call.ret = loop.cache["BTC-USDT-SWAP"]
    /\ loop.call.ret.ct_val = 1
    /\ loop.cache["ETH-USDT-SWAP"] = NoSpec

(***************************************************************************)
(* Portfolio.refresh and the stream handler of main.py.  `fl.kv` is the    *)
(* ws:* part of the ledger, one field per key, unset until written;        *)
(* `fl.pf` is the portfolio, each field with its value and the source the  *)
(* value was taken from: "init" (the constructor), "stream", "rest" or     *)
(* "zero" (the fallback of a failed position pull).  The handler runs on   *)
(* the stream's thread, so it and the clock may step between the two       *)
(* halves of a refresh.                                                    *)
(***************************************************************************)
WsMaxAge == 5                 \* _ws_fresh(max_age_sec=5.0)
MaxPfTime == 6                \* the clock runs from 0 to MaxPfTime
MaxRefresh == 2               \* refresh calls
MaxPos == 1                   \* position sizes 0 .. MaxPos

Unset == [has |-> FALSE, v |-> 0]
Val(x) == [has |-> TRUE, v |-> x]

WsLedger0 ==
    [uptime |-> Unset, last_uptime |-> Unset, equity_usd |-> Unset,
     avail_usdt |-> Unset, pos_long |-> Unset, pos_short |-> Unset,
     has_pos |-> None, pos_side |-> None, pos_sz |-> Unset]

\* on_private_event, channel "positions": the store.set_kv calls
OnPositions(L, t, long, short) ==
    LET side == IF long > 0 /\ short = 0 THEN "long"
                ELSE IF short > 0 /\ long = 0 THEN "short"
                ELSE IF long = 0 /\ short = 0 THEN ""
                ELSE IF long >= short THEN "long" ELSE "short"
        sz == IF side = "long" THEN long ELSE IF side = "short" THEN short ELSE 0
    IN  [L EXCEPT !.pos_long = Val(long), !.pos_short = Val(short),
                  !.has_pos = IF long > 0 \/ short > 0 THEN "1" ELSE "0",
                  !.pos_side = side, !.pos_sz = Val(sz),
                  !.uptime = Val(t)]

\* a mutant of the freshness read: it reads the key the handler writes
StoredUptime(L) == L.uptime

\* self.store.get_kv_float("ws_private:last_uptime")
StoredLastUptime(L) == L.last_uptime

\* _ws_fresh
WsFresh(L, t) ==
    LET ts == StoredLastUptime(L)
    IN  ts.has /\ t - ts.v <= WsMaxAge

Fld(v, src) == [v |-> v, src |-> src]

Pf0 == [equity |-> Fld(0, "init"), avail |-> Fld(0, "init"),
        long |-> Fld(0, "init"), short |-> Fld(0, "init")]

\* one of equity / avail_usdt: the ledger value when the stream is fresh and
\* the key is set, else the REST pull, which may raise
AccountField(fresh, stored, restOk, restVal) ==
    IF fresh /\ stored.has THEN [ok |-> TRUE, f |-> Fld(stored.v, "stream")]
    ELSE IF restOk THEN [ok |-> TRUE, f |-> Fld(restVal, "rest")]
    ELSE [ok |-> FALSE, f |-> Fld(0, "zero")]

\* _refresh_account: an exception keeps what has not yet been assigned
RefreshAccount(P, L, t, rest) ==
    LET fresh == WsFresh(L, t)
        eq == AccountField(fresh, L.equity_usd, rest.eqOk, rest.eq)
        av == AccountField(fresh, L.avail_usdt, rest.avOk, rest.av)
    IN  IF ~eq.ok THEN P
        ELSE IF ~av.ok THEN [P EXCEPT !.equity = eq.f]
        ELSE [P EXCEPT !.equity = eq.f, !.avail = av.f]

SetPos(P, long, short, src) ==
    [P EXCEPT !.long = Fld(long, src), !.short = Fld(short, src)]

\* _refresh_pos, the REST pull
RestPos(P, rest) ==
    IF ~rest.posOk THEN SetPos(P, 0, 0, "zero")
    ELSE SetPos(P, rest.long, rest.short, "rest")

\* _refresh_pos
RefreshPos(P, L, t, inst, rest) ==
    IF ~inst THEN SetPos(P, 0, 0, "zero")
    ELSE IF WsFresh(L, t)
    THEN IF L.pos_long.has \/ L.pos_short.has
         THEN SetPos(P, L.pos_long.v, L.pos_short.v, "stream")
         ELSE IF L.has_pos = "1" /\ L.pos_side \in {"long", "short"}
         THEN SetPos(P, IF L.pos_side = "long" THEN L.pos_sz.v ELSE 0,
                        IF L.pos_side = "short" THEN L.pos_sz.v ELSE 0, "stream")
         ELSE RestPos(P, rest)
    ELSE RestPos(P, rest)

RestAnswers ==
    [eqOk : BOOLEAN, avOk : BOOLEAN, posOk : BOOLEAN, eq : {1}, av : {1},
     long : 0 .. MaxPos, short : 0 .. MaxPos]

InitPortfolio ==
    /\ OMIdle
    /\ mg = Idle /\ rq = Idle /\ lk = Idle /\ ws = Idle /\ XIdle
    /\ fl \in [kv : {WsLedger0}, pf : {Pf0}, t : {0}, pc : {"idle"}, n : {0},
               inst : BOOLEAN]

PfOthers == UNCHANGED <<omVars, mg, rq, lk, ws, xVars>>

\* Portfolio.refresh, first half: self._refresh_account()
PfRefreshAccount ==
    /\ fl.pc = "idle"
    /\ fl.n < MaxRefresh
    /\ \E rest \in RestAnswers :
          fl' = [fl EXCEPT !.pf = RefreshAccount(fl.pf, fl.kv, fl.t, rest),
                           !.pc = "pos"]
    /\ PfOthers

\* Portfolio.refresh, second half: self._refresh_pos()
PfRefreshPos ==
    /\ fl.pc = "pos"
    /\ \E rest \in RestAnswers :
          fl' = [fl EXCEPT !.pf = RefreshPos(fl.pf, fl.kv, fl.t, fl.inst, rest),
                           !.pc = "idle", !.n = @ + 1]
    /\ PfOthers

\* a positions push handled by on_private_event
PfOnPositions ==
    /\ \E long \in 0 .. MaxPos, short \in 0 .. MaxPos :
          fl' = [fl EXCEPT !.kv = OnPositions(fl.kv, fl.t, long, short)]
    /\ PfOthers

PfTick ==
    /\ fl.t < MaxPfTime
    /\ fl' = [fl EXCEPT !.t = @ + 1]
    /\ PfOthers

NextPortfolio ==
    \/ PfRefreshAccount
    \/ PfRefreshPos
    \/ PfOnPositions
    \/ PfTick

SpecPortfolio == InitPortfolio /\ [][NextPortfolio]_vars

PfSources == {fl.pf.equity.src, fl.pf.avail.src, fl.pf.long.src, fl.pf.short.src}

====
